---- MODULE Spec2Model ----
(***************************************************************************)
(* beaver-rag: the chunking strategies (RecursiveChunking,                 *)
(* FixedSizeChunking), the RAGClient operations, the retry loop of the     *)
(* embeddings providers and the search query of PostgresProvider.          *)
(*                                                                         *)
(* A JavaScript string is modelled as a sequence of one-character strings, *)
(* so that slice / split / includes are computed and not assumed.          *)
(* Similarities are integers in tenths (9 stands for 0.9), and             *)
(* similarity >= topScore * 0.8 is computed as                             *)
(* 10 * similarity >= 8 * topScore.                                        *)
(***************************************************************************)
EXTENDS Integers, Sequences, FiniteSets, TLC

VARIABLES
    op,           \* the operation performed last
    input,        \* the text the caller holds and passes to chunk()
    chunker,      \* the chunking strategy instance the constructor call produced
    ctorCall,     \* the constructor call: its arguments and what it threw
    chunkResult,  \* what the latest chunk(input) call on the instance returned
    calls,        \* the number of chunk() calls made on the instance
    initialized,  \* RAGClient.initialized
    searchPc,     \* where the search() call stands: idle, embed, dbsearch, done
    query,        \* the query text of the search() call
    callOptions,  \* the options of the search() call, as the caller passed them
    storeRequest, \* what database.search was called with
    allResults,   \* what database.search returned
    thresholded,  \* filteredResults after the adaptive threshold stage
    capped,       \* filteredResults after the chunk diversity stage
    returned,     \* what search() returned
    searchError,  \* the error search() failed with, None when it did not
    embedCalls,   \* the number of embeddings.embed calls the client made
    dbSearchCalls, \* the number of database.search calls the client made
    rejected,     \* the provider call that rejected, and the error it rejected with
    connected,    \* the database provider holds an open connection
    initPc,       \* where initialize() stands: idle, connect, dbinit, dims
    table,        \* the records the database provider stores, in insertion order
    nextUuid,     \* the number the next randomUUID() stands for
    clientCalls,  \* the number of calls made on the client
    lastCall,     \* the client call that ended last: arguments and outcome
    batch,        \* the addDocuments call in flight: its documents and progress
    runPc,        \* where the chunk() call followed step by step stands
    frames,       \* the splitText calls in progress, the innermost last
    loopStart,    \* startPos of the loop of FixedSizeChunking.chunk
    collected,    \* the chunk contents that loop has collected so far
    steps,        \* the number of loop iterations the chunk() call has run
    retryPc,      \* where embedWithRetry stands: idle, embed, backoff, done
    maxRetries,   \* the maxRetries in force in the embedWithRetry call
    attempt,      \* the loop variable of embedWithRetry
    lastError,    \* lastError of embedWithRetry, NoError for null
    delay,        \* the delay of the backoff timer set last, in milliseconds
    embedLog,     \* how each embed call of embedWithRetry ended, in call order
    retryOutcome, \* how embedWithRetry ended: what it returned or threw
    queryPc,      \* where PostgresProvider.search stands: idle, built, sent
    dbOptions,    \* the options PostgresProvider.search was called with
    built         \* what buildSearchQuery returned: the query and its params

chunkVars == <<op, input, chunker, ctorCall, chunkResult, calls>>
searchVars == <<initialized, searchPc, query, callOptions, storeRequest, allResults,
                thresholded, capped, returned, searchError, embedCalls, dbSearchCalls,
                rejected>>
searchRunVars == <<searchPc, query, callOptions, storeRequest, allResults, thresholded,
                   capped, returned, searchError, embedCalls, dbSearchCalls, rejected>>
clientVars == <<connected, initPc, table, nextUuid, clientCalls, lastCall, batch>>
runVars == <<runPc, frames, loopStart, collected, steps>>
retryVars == <<retryPc, maxRetries, attempt, lastError, delay, embedLog, retryOutcome>>
queryVars == <<queryPc, dbOptions, built>>
unitVars == <<runVars, retryVars, queryVars>>
vars == <<chunkVars, searchVars, clientVars, unitVars>>

\* ------------------------------------------------------------------ bounds
MaxLen == 5
MaxSize == 4
MaxCandidates == 3
MaxCalls == 2
MaxClientCalls == 4

Alphabet == {"a", ".", " "}

Undefined == "undefined"
None == "none"

Min(a, b) == IF a <= b THEN a ELSE b
Max(a, b) == IF a >= b THEN a ELSE b

Texts == UNION {[1..n -> Alphabet] : n \in 0..MaxLen}

\* --------------------------------------------------------- string helpers
\* String.prototype.slice(a, b) with 0 <= a, 0 <= b (both clipped to length)
Slice(s, a, b) == SubSeq(s, Min(a, Len(s)) + 1, Min(b, Len(s)))

\* String.prototype.slice(-n) with n > 0: the last n characters
SliceLast(s, n) == SubSeq(s, Max(Len(s) - n, 0) + 1, Len(s))

\* index (1-based) of the first occurrence of sep in s at or after 1, 0 if none
IndexOf(s, sep) ==
    LET hits == {i \in 1..(Len(s) - Len(sep) + 1) : SubSeq(s, i, i + Len(sep) - 1) = sep}
    IN  IF hits = {} THEN 0 ELSE CHOOSE i \in hits : \A j \in hits : i <= j

\* String.prototype.includes(sep)
Includes(s, sep) == sep = <<>> \/ IndexOf(s, sep) > 0

RECURSIVE Split(_, _)
\* String.prototype.split(sep) for a non-empty separator
Split(s, sep) ==
    LET i == IndexOf(s, sep)
    IN  IF i = 0 THEN <<s>>
        ELSE <<SubSeq(s, 1, i - 1)>> \o Split(SubSeq(s, i + Len(sep), Len(s)), sep)

RECURSIVE Concat(_)
Concat(ss) == IF ss = <<>> THEN <<>> ELSE Head(ss) \o Concat(Tail(ss))

\* ------------------------------------------------------- ChunkingStrategy
DEFAULT_SEPARATORS ==
    << <<"\n", "\n">>, <<"\n">>, <<".", " ">>, <<"?", " ">>, <<"!", " ">>,
       <<";", " ">>, <<",", " ">>, <<" ">>, <<>> >>

\* the separators option a caller may pass to the RecursiveChunking
\* constructor: absent (given = FALSE) or a list
SeparatorInputs ==
    {[given |-> FALSE, list |-> <<>>],
     [given |-> TRUE, list |-> << <<" ">> >>]}

\* createChunk numbering the chunks from 1
createChunkOneBased(content, index, total, startChar, endChar) ==
    [content |-> content,
     metadata |-> [chunkIndex |-> index + 1, totalChunks |-> total,
                   startChar |-> startChar, endChar |-> endChar]]

createChunk(content, index, total, startChar, endChar) ==
    [content |-> content,
     metadata |-> [chunkIndex |-> index, totalChunks |-> total,
                   startChar |-> startChar, endChar |-> endChar]]

\* OptionsError with the last check written as > : overlap = size passes
OptionsErrorAllowsEqual(chunkSize, chunkOverlap) ==
    IF chunkSize <= 0 THEN "ChunkingError"
    ELSE IF chunkOverlap < 0 THEN "ChunkingError"
    ELSE IF chunkOverlap > chunkSize THEN "ChunkingError"
    ELSE None

\* the three checks shared by both constructors; None when none throws
OptionsError(chunkSize, chunkOverlap) ==
    IF chunkSize <= 0 THEN "ChunkingError"
    ELSE IF chunkOverlap < 0 THEN "ChunkingError"
    ELSE IF chunkOverlap >= chunkSize THEN "ChunkingError"
    ELSE None

\* ------------------------------------------------------ FixedSizeChunking
RECURSIVE FixedLoopIgnoresOverlap(_, _, _, _, _)
\* FixedLoop advancing by chunkSize instead of step
FixedLoopIgnoresOverlap(text, chunkSize, step, startPos, chunkContents) ==
    IF startPos < Len(text)
    THEN LET endPos == Min(startPos + chunkSize, Len(text))
             chunkContent == Slice(text, startPos, endPos)
         IN  FixedLoopIgnoresOverlap(text, chunkSize, step, startPos + chunkSize,
                                     Append(chunkContents, chunkContent))
    ELSE chunkContents

RECURSIVE FixedLoopWindowIsStep(_, _, _, _, _)
\* FixedLoop cutting windows of step characters instead of chunkSize
FixedLoopWindowIsStep(text, chunkSize, step, startPos, chunkContents) ==
    IF startPos < Len(text)
    THEN LET endPos == Min(startPos + step, Len(text))
             chunkContent == Slice(text, startPos, endPos)
         IN  FixedLoopWindowIsStep(text, chunkSize, step, startPos + step,
                                   Append(chunkContents, chunkContent))
    ELSE chunkContents

RECURSIVE FixedLoop(_, _, _, _, _)
\* the while loop of FixedSizeChunking.chunk
FixedLoop(text, chunkSize, step, startPos, chunkContents) ==
    IF startPos < Len(text)
    THEN LET endPos == Min(startPos + chunkSize, Len(text))
             chunkContent == Slice(text, startPos, endPos)
         IN  FixedLoop(text, chunkSize, step, startPos + step,
                       Append(chunkContents, chunkContent))
    ELSE chunkContents

FixedSizeChunk(text, options) ==
    IF Len(text) = 0 THEN <<>>
    ELSE LET step == options.chunkSize - options.chunkOverlap
             chunkContents == FixedLoop(text, options.chunkSize, step, 0, <<>>)
         IN  [index \in 1..Len(chunkContents) |->
                LET content == chunkContents[index]
                    startChar == (index - 1) * step
                    endChar == Min(startChar + Len(content), Len(text))
                IN  createChunk(content, index - 1, Len(chunkContents), startChar, endChar)]

\* ------------------------------------------------------ RecursiveChunking
RECURSIVE splitBySizeFrom(_, _, _)
splitBySizeFrom(text, size, i) ==
    IF i < Len(text)
    THEN <<Slice(text, i, i + size)>> \o splitBySizeFrom(text, size, i + size)
    ELSE <<>>

\* splitBySize starting its loop at the second character
splitBySizeSkipsFirst(text, size) == splitBySizeFrom(text, size, 1)

splitBySize(text, size) == splitBySizeFrom(text, size, 0)

\* the position (1-based) of the separator the loop of splitText settles on:
\* the first one that is '' or occurs in the text; 0 when the loop ends
\* without one
ChosenSeparator(text, separators) ==
    LET hits == {k \in 1..Len(separators) :
                    separators[k] = <<>> \/ Includes(text, separators[k])}
    IN  IF hits = {} THEN 0 ELSE CHOOSE k \in hits : \A j \in hits : k <= j

RECURSIVE splitText(_, _, _)
RECURSIVE PackPartsForgetsSeparator(_, _, _, _, _, _, _)
\* PackParts testing the fit with the part's length, not the length of the
\* part with its separator
PackPartsForgetsSeparator(parts, i, separator, splits, currentChunk, chunkSize, separators) ==
    IF i > Len(parts)
    THEN IF Len(currentChunk) > 0 THEN Append(splits, currentChunk) ELSE splits
    ELSE LET part == parts[i]
             partWithSep == IF i < Len(parts) THEN part \o separator ELSE part
         IN  IF Len(currentChunk) = 0
             THEN PackPartsForgetsSeparator(parts, i + 1, separator, splits, partWithSep,
                                            chunkSize, separators)
             ELSE IF Len(currentChunk) + Len(part) <= chunkSize
             THEN PackPartsForgetsSeparator(parts, i + 1, separator, splits,
                                            currentChunk \o partWithSep, chunkSize, separators)
             ELSE LET pushed == Append(splits, currentChunk)
                  IN  IF Len(partWithSep) > chunkSize
                      THEN PackPartsForgetsSeparator(parts, i + 1, separator,
                                     pushed \o splitText(partWithSep, chunkSize, separators),
                                     <<>>, chunkSize, separators)
                      ELSE PackPartsForgetsSeparator(parts, i + 1, separator, pushed,
                                                     partWithSep, chunkSize, separators)

RECURSIVE PackParts(_, _, _, _, _, _, _)
\* the for loop over parts in splitText: i is the 1-based index of the part
PackParts(parts, i, separator, splits, currentChunk, chunkSize, separators) ==
    IF i > Len(parts)
    THEN IF Len(currentChunk) > 0 THEN Append(splits, currentChunk) ELSE splits
    ELSE LET part == parts[i]
             partWithSep == IF i < Len(parts) THEN part \o separator ELSE part
         IN  IF Len(currentChunk) = 0
             THEN PackParts(parts, i + 1, separator, splits, partWithSep,
                            chunkSize, separators)
             ELSE IF Len(currentChunk) + Len(partWithSep) <= chunkSize
             THEN PackParts(parts, i + 1, separator, splits,
                            currentChunk \o partWithSep, chunkSize, separators)
             ELSE LET pushed == Append(splits, currentChunk)
                  IN  IF Len(partWithSep) > chunkSize
                      THEN PackParts(parts, i + 1, separator,
                                     pushed \o splitText(partWithSep, chunkSize, separators),
                                     <<>>, chunkSize, separators)
                      ELSE PackParts(parts, i + 1, separator, pushed, partWithSep,
                                     chunkSize, separators)

splitText(text, chunkSize, separators) ==
    IF Len(text) <= chunkSize THEN <<text>>
    ELSE LET k == ChosenSeparator(text, separators)
         IN  IF k = 0 \/ separators[k] = <<>>
             THEN splitBySize(text, chunkSize)
             ELSE PackParts(Split(text, separators[k]), 1, separators[k], <<>>, <<>>,
                            chunkSize, separators)

RECURSIVE MergeLoopDropsOverlap(_, _, _, _, _, _)
\* MergeLoop starting the next chunk with the split alone
MergeLoopDropsOverlap(splits, i, chunks, currentChunk, chunkSize, overlap) ==
    IF i > Len(splits)
    THEN IF Len(currentChunk) > 0 THEN Append(chunks, currentChunk) ELSE chunks
    ELSE LET split == splits[i]
         IN  IF Len(currentChunk) = 0
             THEN MergeLoopDropsOverlap(splits, i + 1, chunks, split, chunkSize, overlap)
             ELSE IF Len(currentChunk) + Len(split) <= chunkSize
             THEN MergeLoopDropsOverlap(splits, i + 1, chunks, currentChunk \o split,
                                        chunkSize, overlap)
             ELSE MergeLoopDropsOverlap(splits, i + 1, Append(chunks, currentChunk),
                                        split, chunkSize, overlap)

RECURSIVE MergeLoopOverlapFromStart(_, _, _, _, _, _)
\* MergeLoop taking the overlap from the start of the chunk just closed
MergeLoopOverlapFromStart(splits, i, chunks, currentChunk, chunkSize, overlap) ==
    IF i > Len(splits)
    THEN IF Len(currentChunk) > 0 THEN Append(chunks, currentChunk) ELSE chunks
    ELSE LET split == splits[i]
         IN  IF Len(currentChunk) = 0
             THEN MergeLoopOverlapFromStart(splits, i + 1, chunks, split, chunkSize, overlap)
             ELSE IF Len(currentChunk) + Len(split) <= chunkSize
             THEN MergeLoopOverlapFromStart(splits, i + 1, chunks, currentChunk \o split,
                                            chunkSize, overlap)
             ELSE MergeLoopOverlapFromStart(splits, i + 1, Append(chunks, currentChunk),
                            Slice(currentChunk, 0, overlap) \o split, chunkSize, overlap)

RECURSIVE MergeLoop(_, _, _, _, _, _)
\* the for loop over splits in mergeChunks
MergeLoop(splits, i, chunks, currentChunk, chunkSize, overlap) ==
    IF i > Len(splits)
    THEN IF Len(currentChunk) > 0 THEN Append(chunks, currentChunk) ELSE chunks
    ELSE LET split == splits[i]
         IN  IF Len(currentChunk) = 0
             THEN MergeLoop(splits, i + 1, chunks, split, chunkSize, overlap)
             ELSE IF Len(currentChunk) + Len(split) <= chunkSize
             THEN MergeLoop(splits, i + 1, chunks, currentChunk \o split, chunkSize, overlap)
             ELSE MergeLoop(splits, i + 1, Append(chunks, currentChunk),
                            SliceLast(currentChunk, overlap) \o split, chunkSize, overlap)

mergeChunks(splits, chunkSize, overlap) ==
    IF overlap = 0 THEN splits
    ELSE MergeLoop(splits, 1, <<>>, <<>>, chunkSize, overlap)

\* RecursiveChunk without the check for an empty text
RecursiveChunkNoEmptyCheck(text, options, separators) ==
    LET splits == splitText(text, options.chunkSize, separators)
        chunks == mergeChunks(splits, options.chunkSize, options.chunkOverlap)
    IN  [index \in 1..Len(chunks) |->
            createChunk(chunks[index], index - 1, Len(chunks), Undefined, Undefined)]

RecursiveChunk(text, options, separators) ==
    IF Len(text) = 0 THEN <<>>
    ELSE LET splits == splitText(text, options.chunkSize, separators)
             chunks == mergeChunks(splits, options.chunkSize, options.chunkOverlap)
         IN  [index \in 1..Len(chunks) |->
                createChunk(chunks[index], index - 1, Len(chunks), Undefined, Undefined)]

\* ------------------------------------------------------ RAGClient.search
\* An optional field of SearchOptions: <<>> when absent, <<v>> when given
Absent == <<>>
Given(v) == <<v>>

\* o ?? d
OrDefault(o, d) == IF o = Absent THEN d ELSE o[1]

\* similarities, in tenths. For these values 10 * similarity never equals
\* 8 * topScore, so the integer comparison decides as the floating-point
\* comparison similarity >= topScore * 0.8 does.
Sims == {4, 7, 9}

\* metadata.originalContent of a stored record: the source document's text
\* (here a name for it), None when the record is not a chunk
Keys == {None, "doc1", "doc2"}

\* the answers database.search may give: rows in any order, each with its
\* own id (its position), a similarity and an originalContent
Candidate(i, c) == [id |-> i, similarity |-> c[1], originalContent |-> c[2]]
CandidateLists ==
    UNION {{[i \in 1..n |-> Candidate(i, f[i])] : f \in [1..n -> Sims \X Keys]} :
           n \in 0..MaxCandidates}

LimitInputs == {Absent, Given(0), Given(1), Given(2)}
MinSimilarityInputs == {Absent, Given(8)}
MaxChunksPerDocumentInputs == {Absent, Given(-1), Given(0), Given(1)}
UseAdaptiveThresholdInputs == {Absent, Given(TRUE)}
\* query texts: empty, whitespace only, and one with text after whitespace
QueryInputs == {<<>>, <<" ">>, <<" ", " ">>, <<" ", "q">>}

OptionInputs ==
    [limit : LimitInputs, minSimilarity : MinSimilarityInputs,
     maxChunksPerDocument : MaxChunksPerDocumentInputs,
     useAdaptiveThreshold : UseAdaptiveThresholdInputs]

DefaultLimit == 5
DefaultMinSimilarity == 5
DefaultMaxChunksPerDocument == 2

\* searchOptions with minSimilarity always the default
searchOptionsDefaultMinSimilarity(opts) ==
    [limit |-> OrDefault(opts.limit, DefaultLimit),
     minSimilarity |-> DefaultMinSimilarity,
     maxChunksPerDocument |-> OrDefault(opts.maxChunksPerDocument, DefaultMaxChunksPerDocument),
     useAdaptiveThreshold |-> OrDefault(opts.useAdaptiveThreshold, FALSE)]

\* "Apply defaults"
searchOptions(opts) ==
    [limit |-> OrDefault(opts.limit, DefaultLimit),
     minSimilarity |-> OrDefault(opts.minSimilarity, DefaultMinSimilarity),
     maxChunksPerDocument |-> OrDefault(opts.maxChunksPerDocument, DefaultMaxChunksPerDocument),
     useAdaptiveThreshold |-> OrDefault(opts.useAdaptiveThreshold, FALSE)]

\* "Get more results initially for filtering"
initialLimit(so) == IF so.maxChunksPerDocument # 0 THEN so.limit * 3 ELSE so.limit

RECURSIVE TrimStart(_)
TrimStart(s) == IF s # <<>> /\ Head(s) = " " THEN TrimStart(Tail(s)) ELSE s

RECURSIVE TrimEnd(_)
TrimEnd(s) ==
    IF s # <<>> /\ s[Len(s)] = " " THEN TrimEnd(SubSeq(s, 1, Len(s) - 1)) ELSE s

\* String.prototype.trim
Trim(s) == TrimEnd(TrimStart(s))

\* IsBlank without the trim
IsBlankEmptyOnly(q) == q = <<>>

\* !query || query.trim().length === 0
IsBlank(q) == q = <<>> \/ Len(Trim(q)) = 0

\* SelectSeq2 collecting the kept elements last-first
SelectSeq2Reversed(seq, keep) ==
    LET F[i \in 0..Len(seq)] ==
            IF i = 0 THEN <<>>
            ELSE IF keep[i] THEN <<seq[i]>> \o F[i - 1] ELSE F[i - 1]
    IN  F[Len(seq)]

\* Array.prototype.filter: the elements seq[i] with keep[i], in order
SelectSeq2(seq, keep) ==
    LET F[i \in 0..Len(seq)] ==
            IF i = 0 THEN <<>>
            ELSE IF keep[i] THEN Append(F[i - 1], seq[i]) ELSE F[i - 1]
    IN  F[Len(seq)]

\* AdaptiveThreshold without the minSimilarity floor
AdaptiveThresholdNoFloor(all, so) ==
    IF so.useAdaptiveThreshold /\ Len(all) > 0
    THEN LET topScore == all[1].similarity
         IN  SelectSeq2(all, [i \in 1..Len(all) |->
                                10 * all[i].similarity >= 8 * topScore])
    ELSE all

\* "Apply adaptive threshold if enabled": similarity >= Math.max(topScore * 0.8,
\* minSimilarity), in tenths: 10 * similarity >= 8 * topScore and
\* similarity >= minSimilarity
AdaptiveThreshold(all, so) ==
    IF so.useAdaptiveThreshold /\ Len(all) > 0
    THEN LET topScore == all[1].similarity
         IN  SelectSeq2(all, [i \in 1..Len(all) |->
                                /\ 10 * all[i].similarity >= 8 * topScore
                                /\ all[i].similarity >= so.minSimilarity])
    ELSE all

RECURSIVE DiversityLoopOffByOne(_, _, _, _, _)
\* DiversityLoop with count <= maxChunksPerDocument
DiversityLoopOffByOne(results, i, documentChunkCounts, kept, maxChunksPerDocument) ==
    IF i > Len(results) THEN kept
    ELSE LET originalContent == results[i].originalContent
         IN  IF originalContent = None
             THEN DiversityLoopOffByOne(results, i + 1, documentChunkCounts,
                                        Append(kept, results[i]), maxChunksPerDocument)
             ELSE LET count == documentChunkCounts[originalContent]
                  IN  IF count <= maxChunksPerDocument
                      THEN DiversityLoopOffByOne(results, i + 1,
                                         [documentChunkCounts EXCEPT ![originalContent] = count + 1],
                                         Append(kept, results[i]), maxChunksPerDocument)
                      ELSE DiversityLoopOffByOne(results, i + 1, documentChunkCounts, kept,
                                                 maxChunksPerDocument)

RECURSIVE DiversityLoopGlobalCount(_, _, _, _, _)
\* DiversityLoop keeping one count for all documents instead of one per key
DiversityLoopGlobalCount(results, i, documentChunkCounts, kept, maxChunksPerDocument) ==
    IF i > Len(results) THEN kept
    ELSE LET originalContent == results[i].originalContent
         IN  IF originalContent = None
             THEN DiversityLoopGlobalCount(results, i + 1, documentChunkCounts,
                                           Append(kept, results[i]), maxChunksPerDocument)
             ELSE LET count == documentChunkCounts["doc1"]
                  IN  IF count < maxChunksPerDocument
                      THEN DiversityLoopGlobalCount(results, i + 1,
                                         [documentChunkCounts EXCEPT !["doc1"] = count + 1],
                                         Append(kept, results[i]), maxChunksPerDocument)
                      ELSE DiversityLoopGlobalCount(results, i + 1, documentChunkCounts, kept,
                                                    maxChunksPerDocument)

RECURSIVE DiversityLoop(_, _, _, _, _)
\* the filter callback over filteredResults, with documentChunkCounts
DiversityLoop(results, i, documentChunkCounts, kept, maxChunksPerDocument) ==
    IF i > Len(results) THEN kept
    ELSE LET originalContent == results[i].originalContent
         IN  IF originalContent = None
             THEN DiversityLoop(results, i + 1, documentChunkCounts,
                                Append(kept, results[i]), maxChunksPerDocument)
             ELSE LET count == documentChunkCounts[originalContent]
                  IN  IF count < maxChunksPerDocument
                      THEN DiversityLoop(results, i + 1,
                                         [documentChunkCounts EXCEPT ![originalContent] = count + 1],
                                         Append(kept, results[i]), maxChunksPerDocument)
                      ELSE DiversityLoop(results, i + 1, documentChunkCounts, kept,
                                         maxChunksPerDocument)

\* ChunkDiversity applied for positive caps only
ChunkDiversityPositiveOnly(results, so) ==
    IF so.maxChunksPerDocument > 0
    THEN DiversityLoop(results, 1, [k \in Keys \ {None} |-> 0], <<>>,
                       so.maxChunksPerDocument)
    ELSE results

\* "Apply chunk diversity (limit chunks from same document)"
ChunkDiversity(results, so) ==
    IF so.maxChunksPerDocument # 0
    THEN DiversityLoop(results, 1, [k \in Keys \ {None} |-> 0], <<>>,
                       so.maxChunksPerDocument)
    ELSE results

\* SliceTo with end taken as the last index kept
SliceToInclusive(seq, end) ==
    LET e == IF end < 0 THEN Max(Len(seq) + end + 1, 0) ELSE Min(end + 1, Len(seq))
    IN  SubSeq(seq, 1, e)

\* Array.prototype.slice(0, end)
SliceTo(seq, end) ==
    LET e == IF end < 0 THEN Max(Len(seq) + end, 0) ELSE Min(end, Len(seq))
    IN  SubSeq(seq, 1, e)

\* ------------------------------------------------- the chunker as a state
NoChunker ==
    [kind |-> None, options |-> [chunkSize |-> 0, chunkOverlap |-> 0], separators |-> <<>>]

\* this.options of the instance at hand
cfgSize == chunker.options.chunkSize
cfgOverlap == chunker.options.chunkOverlap

SizeInputs == -1..MaxSize
OverlapInputs == -1..MaxSize

NoCall == [kind |-> None, chunkSize |-> 0, chunkOverlap |-> 0, thrown |-> None]

NoOptions ==
    [limit |-> Absent, minSimilarity |-> Absent, maxChunksPerDocument |-> Absent,
     useAdaptiveThreshold |-> Absent]

NoRequest == [called |-> FALSE, embedding |-> <<>>, limit |-> 0, minSimilarity |-> 0]

NoRejection == [by |-> None, error |-> None]

\* what embeddings.embed and database.search reject with
EmbedErrors == {"EmbeddingError", "ValidationError"}
DbSearchErrors == {"DatabaseError", "ValidationError"}

NoClientCall ==
    [name |-> None, id |-> <<>>, content |-> <<>>, docs |-> <<>>, wasInitialized |-> FALSE,
     error |-> None, ids |-> <<>>, flag |-> FALSE, embedCalls |-> 0, dbCalls |-> 0]

NoBatch ==
    [active |-> FALSE, docs |-> <<>>, done |-> 0, ids |-> <<>>, embedCalls |-> 0,
     dbCalls |-> 0]

\* an empty database, no initialize() in flight, no call made on the client
\* no chunk() call is followed step by step
RunIdle ==
    /\ runPc = "idle"
    /\ frames = <<>>
    /\ loopStart = 0
    /\ collected = <<>>
    /\ steps = 0

\* error.status of an error that has none
NoStatus == 0

\* no error object
NoError == [status |-> NoStatus, code |-> None, at |-> 0]

NoRetryOutcome == [kind |-> None, error |-> NoError, from |-> 0]

\* no embedWithRetry call is followed
RetryIdle ==
    /\ retryPc = "idle"
    /\ maxRetries = 0
    /\ attempt = 0
    /\ lastError = NoError
    /\ delay = 0
    /\ embedLog = <<>>
    /\ retryOutcome = NoRetryOutcome

\* options?: SearchOptions not passed
NoDbOptions ==
    [passed |-> FALSE, limit |-> Absent, minSimilarity |-> Absent, filters |-> Absent]

NoQuery == [conditions |-> <<>>, limitPlaceholder |-> 0, params |-> <<>>]

\* PostgresProvider.search has not been called
QueryIdle ==
    /\ queryPc = "idle"
    /\ dbOptions = NoDbOptions
    /\ built = NoQuery

UnitsIdle == RunIdle /\ RetryIdle /\ QueryIdle

ProvidersIdle ==
    /\ UnitsIdle
    /\ batch = NoBatch
    /\ initPc = "idle"
    /\ table = <<>>
    /\ nextUuid = 1
    /\ clientCalls = 0
    /\ lastCall = NoClientCall

\* no search() call is followed step by step
SearchNotStarted ==
    /\ searchPc = "idle"
    /\ query = <<>>
    /\ callOptions = NoOptions
    /\ storeRequest = NoRequest
    /\ allResults = <<>>
    /\ thresholded = <<>>
    /\ capped = <<>>
    /\ returned = <<>>
    /\ searchError = None
    /\ embedCalls = 0
    /\ dbSearchCalls = 0
    /\ rejected = NoRejection

\* the search side before any search() call, on an initialized client
SearchIdle ==
    /\ initialized = TRUE
    /\ connected = TRUE
    /\ ProvidersIdle
    /\ SearchNotStarted

InitChunk ==
    /\ op = "init"
    /\ input \in Texts
    /\ chunker = NoChunker
    /\ ctorCall = NoCall
    /\ chunkResult = <<>>
    /\ calls = 0
    /\ SearchIdle

\* new FixedSizeChunking({chunkSize, chunkOverlap})
NewFixedSizeChunking ==
    /\ op = "init"
    /\ \E chunkSize \in SizeInputs, chunkOverlap \in OverlapInputs :
        LET thrown == OptionsError(chunkSize, chunkOverlap)
        IN  /\ op' = "new"
            /\ ctorCall' = [kind |-> "fixed", chunkSize |-> chunkSize,
                            chunkOverlap |-> chunkOverlap, thrown |-> thrown]
            /\ chunker' = IF thrown # None THEN NoChunker
                          ELSE [kind |-> "fixed",
                                options |-> [chunkSize |-> chunkSize,
                                             chunkOverlap |-> chunkOverlap],
                                separators |-> <<>>]
            /\ UNCHANGED <<input, chunkResult, calls, searchVars, clientVars, unitVars>>

\* new RecursiveChunking({chunkSize, chunkOverlap, separators})
NewRecursiveChunking ==
    /\ op = "init"
    /\ \E chunkSize \in SizeInputs, chunkOverlap \in OverlapInputs, seps \in SeparatorInputs :
        LET thrown == OptionsError(chunkSize, chunkOverlap)
        IN  /\ op' = "new"
            /\ ctorCall' = [kind |-> "recursive", chunkSize |-> chunkSize,
                            chunkOverlap |-> chunkOverlap, thrown |-> thrown]
            /\ chunker' = IF thrown # None THEN NoChunker
                          ELSE [kind |-> "recursive",
                                options |-> [chunkSize |-> chunkSize,
                                             chunkOverlap |-> chunkOverlap],
                                separators |-> IF seps.given THEN seps.list
                                               ELSE DEFAULT_SEPARATORS]
            /\ UNCHANGED <<input, chunkResult, calls, searchVars, clientVars, unitVars>>

\* FixedSizeChunking.chunk(input)
FixedSizeChunkingChunk ==
    /\ chunker.kind = "fixed"
    /\ calls < MaxCalls
    /\ calls' = calls + 1
    /\ op' = "chunk"
    /\ chunkResult' = FixedSizeChunk(input, chunker.options)
    /\ UNCHANGED <<input, chunker, ctorCall, searchVars, clientVars, unitVars>>

\* RecursiveChunking.chunk(input) consuming the instance's separator list
RecursiveChunkingChunkShiftsSeparators ==
    /\ chunker.kind = "recursive"
    /\ calls < MaxCalls
    /\ calls' = calls + 1
    /\ op' = "chunk"
    /\ chunkResult' = RecursiveChunk(input, chunker.options, chunker.separators)
    /\ chunker' = [chunker EXCEPT !.separators = IF @ = <<>> THEN @ ELSE Tail(@)]
    /\ UNCHANGED <<input, ctorCall, searchVars, clientVars, unitVars>>

\* RecursiveChunking.chunk(input)
RecursiveChunkingChunk ==
    /\ chunker.kind = "recursive"
    /\ calls < MaxCalls
    /\ calls' = calls + 1
    /\ op' = "chunk"
    /\ chunkResult' = RecursiveChunk(input, chunker.options, chunker.separators)
    /\ UNCHANGED <<input, chunker, ctorCall, searchVars, clientVars, unitVars>>

NextChunk ==
    \/ NewFixedSizeChunking
    \/ NewRecursiveChunking
    \/ FixedSizeChunkingChunk
    \/ RecursiveChunkingChunk

SpecChunk == InitChunk /\ [][NextChunk]_vars

\* --------------------------------------------------- search() as a process
InitSearch ==
    /\ op = "init"
    /\ input = <<>>
    /\ chunker = NoChunker
    /\ ctorCall = NoCall
    /\ chunkResult = <<>>
    /\ calls = 0
    /\ SearchIdle

\* search(query, callOptions) up to its first await: ensureInitialized, the
\* query check, then the call of embeddings.embed(query)
SearchCall ==
    /\ searchPc = "idle"
    /\ \E q \in QueryInputs, opts \in OptionInputs :
        /\ query' = q
        /\ callOptions' = opts
        /\ IF ~initialized
           THEN searchError' = "RAGError" /\ searchPc' = "done" /\ UNCHANGED embedCalls
           ELSE IF IsBlank(q)
           THEN searchError' = "ValidationError" /\ searchPc' = "done"
                /\ UNCHANGED embedCalls
           ELSE searchError' = None /\ searchPc' = "embed"
                /\ embedCalls' = embedCalls + 1
    /\ op' = "search"
    /\ UNCHANGED <<clientVars, unitVars, input, chunker, ctorCall, chunkResult, calls, initialized, storeRequest,
                   allResults, thresholded, capped, returned, dbSearchCalls, rejected>>

\* embeddings.embed(query) resolves: database.search is called with the
\* embedding and the callOptions, limit replaced by initialLimit
EmbedReturns ==
    /\ searchPc = "embed"
    /\ searchPc' = "dbsearch"
    /\ storeRequest' = [called |-> TRUE, embedding |-> query,
                        limit |-> initialLimit(searchOptions(callOptions)),
                        minSimilarity |-> searchOptions(callOptions).minSimilarity]
    /\ dbSearchCalls' = dbSearchCalls + 1
    /\ UNCHANGED <<chunkVars, clientVars, unitVars, initialized, query, callOptions, allResults, thresholded,
                   capped, returned, searchError, embedCalls, rejected>>

\* EmbedThrows with the error caught and replaced by a RAGError
EmbedThrowsWrapped ==
    /\ searchPc = "embed"
    /\ searchPc' = "done"
    /\ \E e \in EmbedErrors :
        /\ rejected' = [by |-> "embed", error |-> e]
        /\ searchError' = "RAGError"
    /\ UNCHANGED <<chunkVars, clientVars, unitVars, initialized, query, callOptions, storeRequest, allResults,
                   thresholded, capped, returned, embedCalls, dbSearchCalls>>

\* embeddings.embed(query) rejects: the error leaves search() as it is
EmbedThrows ==
    /\ searchPc = "embed"
    /\ searchPc' = "done"
    /\ \E e \in EmbedErrors :
        /\ rejected' = [by |-> "embed", error |-> e]
        /\ searchError' = e
    /\ UNCHANGED <<chunkVars, clientVars, unitVars, initialized, query, callOptions, storeRequest, allResults,
                   thresholded, capped, returned, embedCalls, dbSearchCalls>>

\* database.search resolves with some rows: the rest of search() runs
DbSearchReturns ==
    /\ searchPc = "dbsearch"
    /\ \E all \in CandidateLists :
        LET so == searchOptions(callOptions)
            afterThreshold == AdaptiveThreshold(all, so)
            afterDiversity == ChunkDiversity(afterThreshold, so)
        IN  /\ allResults' = all
            /\ thresholded' = afterThreshold
            /\ capped' = afterDiversity
            /\ returned' = SliceTo(afterDiversity, so.limit)
    /\ searchPc' = "done"
    /\ UNCHANGED <<chunkVars, clientVars, unitVars, initialized, query, callOptions, storeRequest, searchError,
                   embedCalls, dbSearchCalls, rejected>>

\* DbSearchThrows with a retry loop around database.search
DbSearchThrowsRetries ==
    /\ searchPc = "dbsearch"
    /\ dbSearchCalls < 3
    /\ searchPc' = "dbsearch"
    /\ dbSearchCalls' = dbSearchCalls + 1
    /\ \E e \in DbSearchErrors :
        /\ rejected' = [by |-> "search", error |-> e]
        /\ searchError' = None
    /\ UNCHANGED <<chunkVars, clientVars, unitVars, initialized, query, callOptions, storeRequest, allResults,
                   thresholded, capped, returned, embedCalls>>

\* database.search rejects
DbSearchThrows ==
    /\ searchPc = "dbsearch"
    /\ searchPc' = "done"
    /\ \E e \in DbSearchErrors :
        /\ rejected' = [by |-> "search", error |-> e]
        /\ searchError' = e
    /\ UNCHANGED <<chunkVars, clientVars, unitVars, initialized, query, callOptions, storeRequest, allResults,
                   thresholded, capped, returned, embedCalls, dbSearchCalls>>

NextSearch ==
    \/ SearchCall
    \/ EmbedReturns
    \/ EmbedThrows
    \/ DbSearchReturns
    \/ DbSearchThrows

SpecSearch == InitSearch /\ [][NextSearch]_vars

\* ------------------------------------------ RAGClient and its providers
\* The client's calls are made one after another, each awaited, except that
\* initialize() is followed step by step and other calls may be made while
\* it is in flight; addDocuments() is followed document by document. The database provider is a table of records kept in
\* insertion order; a record's addedAs is bookkeeping: the id addDocument
\* returned for the call that stored it (<<>> when updateDocument stored it).

\* config.chunking, with sizes small enough for the texts of ContentInputs
ClientChunking == [chunkSize |-> 2, chunkOverlap |-> 1]

\* document texts: empty, blank, one chunk long, two chunks long
ContentInputs == {<<>>, <<" ">>, <<"a">>, <<"a", "a", "a">>}
UpdateContentInputs == {<<>>, <<"a">>, <<"a", "a", "a">>}
DocsInputs == {<<>>, << <<"a">> >>, << <<"a", "a", "a">>, <<" ">> >>}

\* metadata.originalContent of a stored record, as a document key
KeyOf(content) == IF content = <<"a">> THEN "doc1" ELSE "doc2"

\* chunks.map((chunk) => chunk.content)
chunkTexts(content) ==
    LET chunks == RecursiveChunk(content, ClientChunking, DEFAULT_SEPARATORS)
    IN  [index \in 1..Len(chunks) |-> chunks[index].content]

\* what a call of the client ends with: the error thrown (None when it
\* returned), the table and the next UUID after it, what it returned and
\* how many provider calls it made
Outcome(error, tbl, uuid, ids, flag, embeds, dbs) ==
    [error |-> error, table |-> tbl, uuid |-> uuid, ids |-> ids, flag |-> flag,
     embedCalls |-> embeds, dbCalls |-> dbs]

\* ensureInitialized throws
NotInitialized(tbl, uuid) == Outcome("RAGError", tbl, uuid, <<>>, FALSE, 0, 0)

HasId(tbl, id) == \E i \in 1..Len(tbl) : tbl[i].id = id

RECURSIVE upsertDocuments(_, _)
\* INSERT ... ON CONFLICT (id) DO UPDATE, for each document in turn
upsertDocuments(tbl, docs) ==
    IF docs = <<>> THEN tbl
    ELSE LET doc == Head(docs)
             next == IF HasId(tbl, doc.id)
                     THEN [i \in 1..Len(tbl) |-> IF tbl[i].id = doc.id THEN doc ELSE tbl[i]]
                     ELSE Append(tbl, doc)
         IN  upsertDocuments(next, Tail(docs))

\* DELETE FROM table WHERE id = $1
deleteDocument(tbl, id) ==
    LET Keep(r) == r.id # id
    IN  SelectSeq(tbl, Keep)

\* SELECT ... WHERE id = $1: the ids of the rows found
getDocument(tbl, id) == IF HasId(tbl, id) THEN <<id>> ELSE <<>>

AddFailures == {None, "embedBatch", "upsertDocuments"}
UpdateFailures == {None, "deleteDocument", "embedBatch", "upsertDocuments"}
SearchFailures == {None, "embed", "search"}

\* addDocument(content) past ensureInitialized; uuid is the next value of
\* randomUUID(), fail the provider call that rejects
addDocument(content, tbl, uuid, fail) ==
    IF IsBlank(content)
    THEN Outcome("ValidationError", tbl, uuid, <<>>, FALSE, 0, 0)
    ELSE LET texts == chunkTexts(content)
             documents == [index \in 1..Len(texts) |->
                              [id |-> <<uuid + index - 1>>, content |-> texts[index],
                               originalContent |-> content, addedAs |-> <<uuid>>]]
         IN  IF Len(texts) = 0
             THEN Outcome("RAGError", tbl, uuid, <<>>, FALSE, 0, 0)
             ELSE IF fail = "embedBatch"
             THEN Outcome("EmbeddingError", tbl, uuid, <<>>, FALSE, 1, 0)
             ELSE IF fail = "upsertDocuments"
             THEN Outcome("DatabaseError", tbl, uuid + Len(texts), <<>>, FALSE, 1, 1)
             ELSE Outcome(None, upsertDocuments(tbl, documents), uuid + Len(texts),
                          <<documents[1].id>>, FALSE, 1, 1)

\* updateDocument(id, content) past ensureInitialized
updateDocument(id, content, tbl, uuid, fail) ==
    IF fail = "deleteDocument"
    THEN Outcome("DatabaseError", tbl, uuid, <<>>, FALSE, 0, 1)
    ELSE LET afterDelete == deleteDocument(tbl, id)
             texts == chunkTexts(content)
             documents == [index \in 1..Len(texts) |->
                              [id |-> IF index = 1 THEN id ELSE Append(id, index - 1),
                               content |-> texts[index],
                               originalContent |-> content, addedAs |-> <<>>]]
         IN  IF fail = "embedBatch"
             THEN Outcome("EmbeddingError", afterDelete, uuid, <<>>, FALSE, 1, 1)
             ELSE IF fail = "upsertDocuments"
             THEN Outcome("DatabaseError", afterDelete, uuid, <<>>, FALSE, 1, 2)
             ELSE Outcome(None, upsertDocuments(afterDelete, documents), uuid, <<>>,
                          FALSE, 1, 2)

\* search(query) without options past ensureInitialized, the database
\* answering with the first rows of its table, all equally similar
clientSearch(q, tbl, uuid, fail) ==
    IF IsBlank(q)
    THEN Outcome("ValidationError", tbl, uuid, <<>>, FALSE, 0, 0)
    ELSE IF fail = "embed"
    THEN Outcome("EmbeddingError", tbl, uuid, <<>>, FALSE, 1, 0)
    ELSE IF fail = "search"
    THEN Outcome("DatabaseError", tbl, uuid, <<>>, FALSE, 1, 1)
    ELSE LET so == searchOptions(NoOptions)
             rows == SliceTo(tbl, initialLimit(so))
             all == [i \in 1..Len(rows) |->
                        Candidate(i, <<9, KeyOf(rows[i].originalContent)>>)]
             results == SliceTo(ChunkDiversity(AdaptiveThreshold(all, so), so), so.limit)
         IN  Outcome(None, tbl, uuid, [i \in 1..Len(results) |-> rows[results[i].id].id],
                     FALSE, 1, 1)

\* the ids a caller may pass: one never issued, the UUIDs issued so far and
\* the ids of the stored records
IdInputs == {<<n>> : n \in 0..(nextUuid - 1)} \cup {table[i].id : i \in 1..Len(table)}

\* the record of a call that has ended
ClientCall(name, id, content, docs, out) ==
    [name |-> name, id |-> id, content |-> content, docs |-> docs,
     wasInitialized |-> initialized, error |-> out.error, ids |-> out.ids,
     flag |-> out.flag, embedCalls |-> out.embedCalls, dbCalls |-> out.dbCalls]

InitClient ==
    /\ op = "init"
    /\ input = <<>>
    /\ chunker = NoChunker
    /\ ctorCall = NoCall
    /\ chunkResult = <<>>
    /\ calls = 0
    /\ initialized = FALSE
    /\ connected = FALSE
    /\ SearchNotStarted
    /\ ProvidersIdle

\* initialize() up to its first await
RAGClientInitialize ==
    /\ clientCalls < MaxClientCalls
    /\ ~batch.active
    /\ clientCalls' = clientCalls + 1
    /\ initPc = "idle"
    /\ IF initialized
       THEN /\ lastCall' = ClientCall("initialize", <<>>, <<>>, <<>>,
                                      Outcome(None, table, nextUuid, <<>>, FALSE, 0, 0))
            /\ UNCHANGED initPc
       ELSE /\ initPc' = "connect"
            /\ UNCHANGED lastCall
    /\ UNCHANGED <<chunkVars, unitVars, batch, searchVars, connected, table, nextUuid>>

\* initialize() throws the error of the provider call that rejected, having
\* made dbs calls of the database provider
InitializeFails(error, dbs) ==
    /\ initPc' = "idle"
    /\ lastCall' = ClientCall("initialize", <<>>, <<>>, <<>>,
                              Outcome(error, table, nextUuid, <<>>, FALSE, 0, dbs))

\* database.connect() resolves
ConnectReturns ==
    /\ initPc = "connect"
    /\ initPc' = "dbinit"
    /\ connected' = TRUE
    /\ UNCHANGED <<chunkVars, unitVars, batch, searchVars, table, nextUuid, clientCalls, lastCall>>

\* database.connect() rejects
ConnectThrows ==
    /\ initPc = "connect"
    /\ InitializeFails("DatabaseError", 1)
    /\ UNCHANGED <<chunkVars, unitVars, batch, searchVars, connected, table, nextUuid, clientCalls>>

\* database.initialize() resolves
DbInitializeReturns ==
    /\ initPc = "dbinit"
    /\ initPc' = "dims"
    /\ UNCHANGED <<chunkVars, unitVars, batch, searchVars, connected, table, nextUuid, clientCalls, lastCall>>

\* database.initialize() rejects
DbInitializeThrows ==
    /\ initPc = "dbinit"
    /\ InitializeFails("DatabaseError", 2)
    /\ UNCHANGED <<chunkVars, unitVars, batch, searchVars, connected, table, nextUuid, clientCalls>>

\* this.embeddings.dimensions
EmbeddingsDimensions == 3

\* what database.getVectorDimensions() resolves with: 0 stands for null
StoredDimensionsInputs == {0, EmbeddingsDimensions, EmbeddingsDimensions + 1}

\* database.getVectorDimensions() resolves: the dimension check, then
\* this.initialized = true
GetVectorDimensionsReturns ==
    /\ initPc = "dims"
    /\ \E storedDimensions \in StoredDimensionsInputs :
        IF storedDimensions # 0 /\ storedDimensions # EmbeddingsDimensions
        THEN InitializeFails("RAGError", 3) /\ UNCHANGED initialized
        ELSE /\ initialized' = TRUE
             /\ initPc' = "idle"
             /\ lastCall' = [ClientCall("initialize", <<>>, <<>>, <<>>,
                                        Outcome(None, table, nextUuid, <<>>, FALSE, 0, 3))
                             EXCEPT !.wasInitialized = FALSE]
    /\ UNCHANGED <<chunkVars, unitVars, batch, searchRunVars, connected, table, nextUuid, clientCalls>>

\* database.getVectorDimensions() rejects
GetVectorDimensionsThrows ==
    /\ initPc = "dims"
    /\ InitializeFails("DatabaseError", 3)
    /\ UNCHANGED <<chunkVars, unitVars, batch, searchVars, connected, table, nextUuid, clientCalls>>

\* close(): database.disconnect() resolves or rejects
RAGClientClose ==
    /\ clientCalls < MaxClientCalls
    /\ ~batch.active
    /\ clientCalls' = clientCalls + 1
    /\ IF ~initialized
       THEN /\ lastCall' = ClientCall("close", <<>>, <<>>, <<>>,
                                      Outcome(None, table, nextUuid, <<>>, FALSE, 0, 0))
            /\ UNCHANGED <<initialized, connected>>
       ELSE \E disconnects \in BOOLEAN :
            IF disconnects
            THEN /\ connected' = FALSE
                 /\ initialized' = FALSE
                 /\ lastCall' = ClientCall("close", <<>>, <<>>, <<>>,
                                           Outcome(None, table, nextUuid, <<>>, FALSE, 0, 1))
            ELSE /\ lastCall' = ClientCall("close", <<>>, <<>>, <<>>,
                                           Outcome("DatabaseError", table, nextUuid, <<>>,
                                                   FALSE, 0, 1))
                 /\ UNCHANGED <<initialized, connected>>
    /\ UNCHANGED <<chunkVars, unitVars, batch, searchRunVars, initPc, table, nextUuid>>

\* a call of a document operation ends with out
DocumentCall(name, id, content, docs, out) ==
    /\ clientCalls < MaxClientCalls
    /\ ~batch.active
    /\ clientCalls' = clientCalls + 1
    /\ table' = out.table
    /\ nextUuid' = out.uuid
    /\ lastCall' = ClientCall(name, id, content, docs, out)
    /\ UNCHANGED <<chunkVars, unitVars, batch, searchVars, connected, initPc>>

RAGClientAddDocument ==
    \E content \in ContentInputs, fail \in AddFailures :
        \E out \in {IF ~initialized THEN NotInitialized(table, nextUuid)
                     ELSE addDocument(content, table, nextUuid, fail)} :
            DocumentCall("addDocument", <<>>, content, <<>>, out)

\* addDocuments(docs) up to the first await of its for loop
RAGClientAddDocuments ==
    /\ clientCalls < MaxClientCalls
    /\ ~batch.active
    /\ clientCalls' = clientCalls + 1
    /\ \E docs \in DocsInputs :
        IF ~initialized
        THEN /\ lastCall' = ClientCall("addDocuments", <<>>, <<>>, docs,
                                       NotInitialized(table, nextUuid))
             /\ UNCHANGED batch
        ELSE IF Len(docs) = 0
        THEN /\ lastCall' = ClientCall("addDocuments", <<>>, <<>>, docs,
                                       Outcome(None, table, nextUuid, <<>>, FALSE, 0, 0))
             /\ UNCHANGED batch
        ELSE /\ batch' = [NoBatch EXCEPT !.active = TRUE, !.docs = docs]
             /\ UNCHANGED lastCall
    /\ UNCHANGED <<chunkVars, unitVars, searchVars, connected, initPc, table, nextUuid>>

\* one round of the for loop of addDocuments: addDocument(doc.content) ends;
\* its error ends addDocuments, its id is pushed to ids
AddDocumentsNext ==
    /\ batch.active
    /\ \E fail \in AddFailures :
        \E out \in {IF ~initialized THEN NotInitialized(table, nextUuid)
                     ELSE addDocument(batch.docs[batch.done + 1], table, nextUuid, fail)} :
            LET sofar == [batch EXCEPT !.done = @ + 1, !.ids = @ \o out.ids,
                                       !.embedCalls = @ + out.embedCalls,
                                       !.dbCalls = @ + out.dbCalls]
                ended == Outcome(out.error, out.table, out.uuid,
                                 IF out.error # None THEN <<>> ELSE sofar.ids, FALSE,
                                 sofar.embedCalls, sofar.dbCalls)
            IN  /\ table' = out.table
                /\ nextUuid' = out.uuid
                /\ IF out.error # None \/ sofar.done = Len(batch.docs)
                   THEN /\ batch' = NoBatch
                        /\ lastCall' = ClientCall("addDocuments", <<>>, <<>>, batch.docs,
                                                  ended)
                   ELSE /\ batch' = sofar
                        /\ UNCHANGED lastCall
    /\ UNCHANGED <<chunkVars, unitVars, searchVars, connected, initPc, clientCalls>>

\* RAGClientUpdateDocument calling database.deleteDocument before
\* ensureInitialized
RAGClientUpdateDocumentDeletesFirst ==
    \E id \in IdInputs, content \in UpdateContentInputs, fail \in UpdateFailures :
        \E out \in {IF ~initialized
                     THEN Outcome("RAGError", deleteDocument(table, id), nextUuid, <<>>,
                                  FALSE, 0, 1)
                     ELSE updateDocument(id, content, table, nextUuid, fail)} :
            DocumentCall("updateDocument", id, content, <<>>, out)

RAGClientUpdateDocument ==
    \E id \in IdInputs, content \in UpdateContentInputs, fail \in UpdateFailures :
        \E out \in {IF ~initialized THEN NotInitialized(table, nextUuid)
                     ELSE updateDocument(id, content, table, nextUuid, fail)} :
            DocumentCall("updateDocument", id, content, <<>>, out)

\* deleteDocument(id): database.deleteDocument resolves with whether a row
\* was deleted, or rejects
RAGClientDeleteDocument ==
    \E id \in IdInputs, rejects \in BOOLEAN :
        \E out \in {IF ~initialized THEN NotInitialized(table, nextUuid)
                     ELSE IF rejects
                     THEN Outcome("DatabaseError", table, nextUuid, <<>>, FALSE, 0, 1)
                     ELSE Outcome(None, deleteDocument(table, id), nextUuid, <<>>,
                                  HasId(table, id), 0, 1)} :
            DocumentCall("deleteDocument", id, <<>>, <<>>, out)

\* getDocument(id): database.getDocument resolves with the row or null, or
\* rejects
RAGClientGetDocument ==
    \E id \in IdInputs, rejects \in BOOLEAN :
        \E out \in {IF ~initialized THEN NotInitialized(table, nextUuid)
                     ELSE IF rejects
                     THEN Outcome("DatabaseError", table, nextUuid, <<>>, FALSE, 0, 1)
                     ELSE Outcome(None, table, nextUuid, getDocument(table, id),
                                  FALSE, 0, 1)} :
            DocumentCall("getDocument", id, <<>>, <<>>, out)

RAGClientSearch ==
    \E q \in QueryInputs, fail \in SearchFailures :
        \E out \in {IF ~initialized THEN NotInitialized(table, nextUuid)
                     ELSE clientSearch(q, table, nextUuid, fail)} :
            DocumentCall("search", <<>>, q, <<>>, out)

NextClient ==
    \/ RAGClientInitialize
    \/ ConnectReturns
    \/ ConnectThrows
    \/ DbInitializeReturns
    \/ DbInitializeThrows
    \/ GetVectorDimensionsReturns
    \/ GetVectorDimensionsThrows
    \/ RAGClientClose
    \/ RAGClientAddDocument
    \/ RAGClientAddDocuments
    \/ AddDocumentsNext
    \/ RAGClientUpdateDocument
    \/ RAGClientDeleteDocument
    \/ RAGClientGetDocument
    \/ RAGClientSearch

SpecClient == InitClient /\ [][NextClient]_vars

\* ------------------------------------- chunk() followed step by step
\* One chunk(input) call on a valid instance, one loop iteration at a time:
\* the while loop of FixedSizeChunking.chunk, and the loop over parts of
\* splitText with its recursive calls kept as a stack of frames. Slicing by
\* size and the merge of the splits are single steps.

\* iterations after which a call is no longer followed
MaxSteps == 20

\* separator lists: the default hierarchy, custom lists without and with
\* the '' fallback
RunSeparatorInputs ==
    {DEFAULT_SEPARATORS, << <<" ">> >>, << <<".">>, <<" ">>, <<>> >>}

\* the instances the constructors yield
RunChunkers ==
    {[kind |-> "fixed", options |-> [chunkSize |-> s, chunkOverlap |-> o], separators |-> <<>>] :
        s \in SizeInputs,
        o \in OverlapInputs}
    \cup
    {[kind |-> "recursive", options |-> [chunkSize |-> s, chunkOverlap |-> o],
      separators |-> seps] :
        s \in SizeInputs, o \in OverlapInputs, seps \in RunSeparatorInputs}

NoFrame == [parts |-> <<>>, i |-> 0, separator |-> <<>>, splits |-> <<>>, currentChunk |-> <<>>]

\* splitText(text, chunkSize) up to its loop over parts: either it returns
\* at once, or the loop starts with a new frame
EnterSplitText(text) ==
    IF Len(text) <= cfgSize
    THEN [returns |-> TRUE, splits |-> <<text>>, frame |-> NoFrame]
    ELSE LET k == ChosenSeparator(text, chunker.separators)
         IN  IF k = 0 \/ chunker.separators[k] = <<>>
             THEN [returns |-> TRUE, splits |-> splitBySize(text, cfgSize), frame |-> NoFrame]
             ELSE [returns |-> FALSE, splits |-> <<>>,
                   frame |-> [parts |-> Split(text, chunker.separators[k]), i |-> 1,
                              separator |-> chunker.separators[k],
                              splits |-> <<>>, currentChunk |-> <<>>]]

\* the rest of RecursiveChunking.chunk once splitText has returned
RecursiveChunkFrom(splits) ==
    LET chunks == mergeChunks(splits, cfgSize, cfgOverlap)
    IN  [index \in 1..Len(chunks) |->
            createChunk(chunks[index], index - 1, Len(chunks), Undefined, Undefined)]

\* the rest of FixedSizeChunking.chunk once the while loop has ended
FixedChunkFrom(chunkContents) ==
    LET step == cfgSize - cfgOverlap
    IN  [index \in 1..Len(chunkContents) |->
            LET content == chunkContents[index]
                startChar == (index - 1) * step
                endChar == Min(startChar + Len(content), Len(input))
            IN  createChunk(content, index - 1, Len(chunkContents), startChar, endChar)]

InitRun ==
    /\ op = "init"
    /\ input = <<>>
    /\ chunker = NoChunker
    /\ ctorCall = NoCall
    /\ chunkResult = <<>>
    /\ calls = 0
    /\ SearchIdle

\* a constructor call with valid options
NewRunChunker ==
    /\ op = "init"
    /\ \E made \in RunChunkers :
        /\ OptionsError(made.options.chunkSize, made.options.chunkOverlap) = None
        /\ chunker' = made
        /\ ctorCall' = [kind |-> made.kind, chunkSize |-> made.options.chunkSize,
                        chunkOverlap |-> made.options.chunkOverlap, thrown |-> None]
    /\ op' = "new"
    /\ UNCHANGED <<input, chunkResult, calls, searchVars, clientVars, unitVars>>

\* chunk(text) up to the first loop
RunChunkCall ==
    /\ runPc = "idle"
    /\ op = "new"
    /\ op' = "chunk"
    /\ calls' = calls + 1
    /\ \E text \in Texts :
        /\ input' = text
        /\ IF Len(text) = 0
           THEN /\ runPc' = "done"
                /\ chunkResult' = <<>>
                /\ UNCHANGED frames
           ELSE IF chunker.kind = "fixed"
           THEN /\ runPc' = "fixed"
                /\ UNCHANGED <<chunkResult, frames>>
           ELSE LET entered == EnterSplitText(text)
                IN  IF entered.returns
                    THEN /\ runPc' = "done"
                         /\ chunkResult' = RecursiveChunkFrom(entered.splits)
                         /\ UNCHANGED frames
                    ELSE /\ runPc' = "split"
                         /\ frames' = <<entered.frame>>
                         /\ UNCHANGED chunkResult
    /\ UNCHANGED <<chunker, ctorCall, searchVars, clientVars, queryVars, retryVars, loopStart, collected, steps>>

\* FixedLoopStep leaving startPos where it is
FixedLoopStepStalls ==
    /\ runPc = "fixed"
    /\ steps < MaxSteps
    /\ IF loopStart < Len(input)
       THEN LET endPos == Min(loopStart + cfgSize, Len(input))
            IN  /\ collected' = Append(collected, Slice(input, loopStart, endPos))
                /\ steps' = steps + 1
                /\ UNCHANGED <<loopStart, runPc, chunkResult>>
       ELSE /\ runPc' = "done"
            /\ chunkResult' = FixedChunkFrom(collected)
            /\ UNCHANGED <<loopStart, collected, steps>>
    /\ UNCHANGED <<op, input, chunker, ctorCall, calls, searchVars, clientVars, queryVars, retryVars, frames>>

\* one test of the while condition of FixedSizeChunking.chunk, with the loop
\* body when it holds and the rest of chunk() when it does not
FixedLoopStep ==
    /\ runPc = "fixed"
    /\ steps < MaxSteps
    /\ IF loopStart < Len(input)
       THEN LET endPos == Min(loopStart + cfgSize, Len(input))
            IN  /\ collected' = Append(collected, Slice(input, loopStart, endPos))
                /\ loopStart' = loopStart + (cfgSize - cfgOverlap)
                /\ steps' = steps + 1
                /\ UNCHANGED <<runPc, chunkResult>>
       ELSE /\ runPc' = "done"
            /\ chunkResult' = FixedChunkFrom(collected)
            /\ UNCHANGED <<loopStart, collected, steps>>
    /\ UNCHANGED <<op, input, chunker, ctorCall, calls, searchVars, clientVars, queryVars, retryVars, frames>>

\* frames with its innermost frame replaced
WithTop(frame) == [frames EXCEPT ![Len(frames)] = frame]

\* frames after one iteration of the loop over parts in the innermost
\* splitText call: the part is taken, appended, or closes the current chunk
\* and then is taken or split by a recursive call
AfterPart(top) ==
    LET part == top.parts[top.i]
        partWithSep == IF top.i < Len(top.parts) THEN part \o top.separator ELSE part
        pushed == Append(top.splits, top.currentChunk)
        entered == EnterSplitText(partWithSep)
    IN  IF Len(top.currentChunk) = 0
        THEN WithTop([top EXCEPT !.currentChunk = partWithSep, !.i = @ + 1])
        ELSE IF Len(top.currentChunk) + Len(partWithSep) <= cfgSize
        THEN WithTop([top EXCEPT !.currentChunk = @ \o partWithSep, !.i = @ + 1])
        ELSE IF Len(partWithSep) > cfgSize
        THEN IF entered.returns
             THEN WithTop([top EXCEPT !.splits = pushed \o entered.splits,
                                      !.currentChunk = <<>>,
                                      !.i = @ + 1])
             ELSE Append(WithTop([top EXCEPT !.splits = pushed]), entered.frame)
        ELSE WithTop([top EXCEPT !.splits = pushed, !.currentChunk = partWithSep,
                                 !.i = @ + 1])

\* one iteration of the loop over parts in the innermost splitText call
SplitLoopStep ==
    /\ runPc = "split"
    /\ steps < MaxSteps
    /\ frames[Len(frames)].i <= Len(frames[Len(frames)].parts)
    /\ frames' = AfterPart(frames[Len(frames)])
    /\ steps' = steps + 1
    /\ UNCHANGED <<chunkVars, searchVars, clientVars, queryVars, retryVars, runPc, loopStart, collected>>

\* the innermost splitText call returns: to the call that made it, or to
\* chunk(), which merges the splits and returns
SplitTextReturns ==
    /\ runPc = "split"
    /\ steps < MaxSteps
    /\ LET top == frames[Len(frames)]
           splits == IF Len(top.currentChunk) > 0 THEN Append(top.splits, top.currentChunk)
                     ELSE top.splits
       IN  /\ top.i > Len(top.parts)
           /\ IF Len(frames) = 1
              THEN /\ frames' = <<>>
                   /\ runPc' = "done"
                   /\ chunkResult' = RecursiveChunkFrom(splits)
              ELSE LET caller == frames[Len(frames) - 1]
                   IN  /\ frames' = [SubSeq(frames, 1, Len(frames) - 1)
                                        EXCEPT ![Len(frames) - 1] =
                                            [caller EXCEPT !.splits = @ \o splits,
                                                           !.currentChunk = <<>>,
                                                           !.i = @ + 1]]
                       /\ UNCHANGED <<runPc, chunkResult>>
    /\ steps' = steps + 1
    /\ UNCHANGED <<op, input, chunker, ctorCall, calls, searchVars, clientVars, queryVars, retryVars, loopStart, collected>>

NextRun ==
    \/ NewRunChunker
    \/ RunChunkCall
    \/ FixedLoopStep
    \/ SplitLoopStep
    \/ SplitTextReturns

SpecRun == InitRun /\ [][NextRun]_vars

\* ------------------------------------- EmbeddingsProvider.embedWithRetry
\* One embedWithRetry(text, maxRetries) call, followed from await to await.
\* An error object carries its status, its code and, to tell the errors of
\* different attempts apart, the number of the embed call that threw it.

\* the largest maxRetries a caller passes
MaxRetriesInput == 3

\* maxRetries: number = 3
DefaultMaxRetries == 3

MaxRetriesInputs == {Absent} \cup {Given(n) : n \in -1..MaxRetriesInput}

\* what embed may throw: HTTP errors, network errors, and an error with
\* neither status nor code
StatusInputs == {429, 500, 503, 400, 401}
CodeInputs == {"ETIMEDOUT", "ECONNRESET", "ENOTFOUND"}
ErrorInputs ==
    {[status |-> s, code |-> None] : s \in StatusInputs}
    \cup {[status |-> NoStatus, code |-> c] : c \in CodeInputs}
    \cup {[status |-> NoStatus, code |-> None]}

\* new Error('Failed to embed text after retries')
FailedAfterRetries == [status |-> NoStatus, code |-> "Failed to embed text after retries", at |-> 0]

\* isRetryable treating every HTTP status as retryable
isRetryableAnyStatus(error) ==
    \/ error.status # NoStatus
    \/ error.code = "ETIMEDOUT"
    \/ error.code = "ECONNRESET"

isRetryable(error) ==
    \/ error.status = 429
    \/ error.status = 500
    \/ error.status = 503
    \/ error.code = "ETIMEDOUT"
    \/ error.code = "ECONNRESET"

InitRetry ==
    /\ op = "init"
    /\ input = <<>>
    /\ chunker = NoChunker
    /\ ctorCall = NoCall
    /\ chunkResult = <<>>
    /\ calls = 0
    /\ SearchIdle

\* the test of the for loop with attempt at value a: the next embed call,
\* or the throw after the loop
RetryLoopTest(a, max, last, log) ==
    /\ attempt' = a
    /\ IF a < max
       THEN /\ retryPc' = "embed"
            /\ embedLog' = Append(log, [ended |-> "pending", error |-> NoError])
            /\ UNCHANGED retryOutcome
       ELSE /\ retryPc' = "done"
            /\ embedLog' = log
            /\ retryOutcome' = [kind |-> "thrown",
                                error |-> IF last # NoError THEN last ELSE FailedAfterRetries,
                                from |-> 0]

\* embedWithRetry(text, maxRetries) up to its first await
EmbedWithRetryCall ==
    /\ retryPc = "idle"
    /\ \E given \in MaxRetriesInputs :
        /\ maxRetries' = OrDefault(given, DefaultMaxRetries)
        /\ lastError' = NoError
        /\ RetryLoopTest(0, OrDefault(given, DefaultMaxRetries), NoError, <<>>)
    /\ op' = "embedWithRetry"
    /\ UNCHANGED <<input, chunker, ctorCall, chunkResult, calls, searchVars, clientVars, queryVars,
                   runVars, delay>>

\* this.embed(text) resolves: embedWithRetry returns its result
RetryEmbedReturns ==
    /\ retryPc = "embed"
    /\ retryPc' = "done"
    /\ embedLog' = [embedLog EXCEPT ![Len(embedLog)] = [ended |-> "resolved", error |-> NoError]]
    /\ retryOutcome' = [kind |-> "returned", error |-> NoError, from |-> Len(embedLog)]
    /\ UNCHANGED <<chunkVars, searchVars, clientVars, queryVars, runVars, maxRetries, attempt, lastError,
                   delay>>

\* this.embed(text) rejects: the error is rethrown, or the backoff timer is set
RetryEmbedThrows ==
    /\ retryPc = "embed"
    /\ \E e \in ErrorInputs :
        LET error == [status |-> e.status, code |-> e.code, at |-> Len(embedLog)]
        IN  /\ lastError' = error
            /\ embedLog' = [embedLog EXCEPT ![Len(embedLog)] =
                                [ended |-> "rejected", error |-> error]]
            /\ IF ~isRetryable(error) \/ attempt = maxRetries - 1
               THEN /\ retryPc' = "done"
                    /\ retryOutcome' = [kind |-> "thrown", error |-> error, from |-> 0]
                    /\ UNCHANGED delay
               ELSE /\ retryPc' = "backoff"
                    /\ delay' = (2 ^ attempt) * 1000
                    /\ UNCHANGED retryOutcome
    /\ UNCHANGED <<chunkVars, searchVars, clientVars, queryVars, runVars, maxRetries, attempt>>

\* the backoff timer fires: attempt++ and the next test of the loop
BackoffElapses ==
    /\ retryPc = "backoff"
    /\ RetryLoopTest(attempt + 1, maxRetries, lastError, embedLog)
    /\ UNCHANGED <<chunkVars, searchVars, clientVars, queryVars, runVars, maxRetries, lastError, delay>>

NextRetry ==
    \/ EmbedWithRetryCall
    \/ RetryEmbedReturns
    \/ RetryEmbedThrows
    \/ BackoffElapses

SpecRetry == InitRetry /\ [][NextRetry]_vars

\* --------------------------- PostgresProvider.search and buildSearchQuery
\* A filters object is the sequence of its <<key, value>> entries in
\* insertion order. The query is kept as its list of conditions, each with
\* the keyword that introduces it and the number of its placeholder, and the
\* placeholder of LIMIT; a parameter is a tagged value: <<"null">>,
\* <<"string", text>> or <<"number", n>>.

\* options?.limit || 10
DefaultQueryLimit == 10

\* this.dimensions of the provider
TableDimensions == EmbeddingsDimensions

FiltersInputs ==
    {Absent, Given(<<>>), Given(<< <<"category", "a">> >>),
     Given(<< <<"category", "a">>, <<"lang", "b">> >>)}

DbOptionsInputs ==
    {NoDbOptions} \cup
    {[passed |-> TRUE, limit |-> l, minSimilarity |-> m, filters |-> f] :
        l \in LimitInputs, m \in MinSimilarityInputs \cup {Given(0)}, f \in FiltersInputs}

\* query embeddings: of the table's dimensions, and one too short
VectorInputs == {<<1, 2, 3>>, <<0, 0, 0>>, <<1, 2>>}

RECURSIVE JsonMembers(_)
\* the members of JSON.stringify(filters), separated by commas
JsonMembers(entries) ==
    IF entries = <<>> THEN <<>>
    ELSE LET member == <<"\"", Head(entries)[1], "\"", ":", "\"", Head(entries)[2], "\"">>
         IN  IF Len(entries) = 1 THEN member
             ELSE member \o <<",">> \o JsonMembers(Tail(entries))

\* JSON.stringify(filters)
JsonStringify(entries) == <<"{">> \o JsonMembers(entries) \o <<"}">>

RECURSIVE Join(_)
\* queryEmbedding.join(',')
Join(numbers) ==
    IF numbers = <<>> THEN <<>>
    ELSE IF Len(numbers) = 1 THEN <<Head(numbers)>>
    ELSE <<Head(numbers), ",">> \o Join(Tail(numbers))

\* `[${queryEmbedding.join(',')}]`
VectorLiteral(queryEmbedding) == <<"[">> \o Join(queryEmbedding) \o <<"]">>

\* buildSearchQuery(tableName, options)
buildSearchQuery(options) ==
    LET limit == IF options.limit # Absent /\ options.limit[1] # 0 THEN options.limit[1]
                 ELSE DefaultQueryLimit
        minSimilarity == options.minSimilarity
        filters == options.filters
        afterEmbedding == [conditions |-> <<>>, params |-> << <<"null">> >>, paramIndex |-> 2]
        afterFilters ==
            IF filters # Absent /\ Len(filters[1]) > 0
            THEN [conditions |-> Append(afterEmbedding.conditions,
                                        [keyword |-> "WHERE", condition |-> "metadata @>",
                                         placeholder |-> afterEmbedding.paramIndex]),
                  params |-> Append(afterEmbedding.params,
                                    <<"string", JsonStringify(filters[1])>>),
                  paramIndex |-> afterEmbedding.paramIndex + 1]
            ELSE afterEmbedding
        afterSimilarity ==
            IF minSimilarity # Absent
            THEN LET whereOrAnd == IF filters # Absent THEN "AND" ELSE "WHERE"
                 IN  [conditions |-> Append(afterFilters.conditions,
                                            [keyword |-> whereOrAnd,
                                             condition |-> "(1 - (embedding <=> $1)) >=",
                                             placeholder |-> afterFilters.paramIndex]),
                      params |-> Append(afterFilters.params, <<"number", minSimilarity[1]>>),
                      paramIndex |-> afterFilters.paramIndex + 1]
            ELSE afterFilters
    IN  [conditions |-> afterSimilarity.conditions,
         limitPlaceholder |-> afterSimilarity.paramIndex,
         params |-> Append(afterSimilarity.params, <<"number", limit>>)]

\* the SQL parser accepts the condition list: WHERE first, AND afterwards
IsValidSql(q) ==
    \A i \in 1..Len(q.conditions) :
        q.conditions[i].keyword = IF i = 1 THEN "WHERE" ELSE "AND"

InitQuery ==
    /\ op = "init"
    /\ input = <<>>
    /\ chunker = NoChunker
    /\ ctorCall = NoCall
    /\ chunkResult = <<>>
    /\ calls = 0
    /\ SearchIdle

\* PostgresProvider.search(queryEmbedding, options) up to its await: the
\* embedding is validated, the query built and the embedding put in params[0]
PostgresSearch(queryEmbedding, options) ==
    /\ queryPc = "idle"
    /\ dbOptions' = options
    /\ IF Len(queryEmbedding) # TableDimensions
       THEN /\ queryPc' = "ValidationError"
            /\ UNCHANGED built
       ELSE /\ queryPc' = "sent"
            /\ built' = [buildSearchQuery(options) EXCEPT
                            !.params[1] = <<"string", VectorLiteral(queryEmbedding)>>]
    /\ UNCHANGED <<input, chunker, ctorCall, chunkResult, calls, searchVars, clientVars,
                   runVars, retryVars>>

\* database.search called by a caller of the provider, with any options
ProviderSearchCall ==
    /\ \E queryEmbedding \in VectorInputs, options \in DbOptionsInputs :
        PostgresSearch(queryEmbedding, options)
    /\ op' = "database.search"

\* database.search as RAGClient.search calls it: the defaults applied, limit
\* replaced by initialLimit, filters as the caller gave them
ClientSearchCall ==
    /\ \E queryEmbedding \in VectorInputs, opts \in OptionInputs, filters \in FiltersInputs :
        PostgresSearch(queryEmbedding,
                       [passed |-> TRUE,
                        limit |-> Given(initialLimit(searchOptions(opts))),
                        minSimilarity |-> Given(searchOptions(opts).minSimilarity),
                        filters |-> filters])
    /\ op' = "search"

\* this.client.query(query, params) resolves: the statement was accepted
QueryResolves ==
    /\ queryPc = "sent"
    /\ IsValidSql(built)
    /\ queryPc' = "resolved"
    /\ UNCHANGED <<chunkVars, searchVars, clientVars, runVars, retryVars, dbOptions, built>>

\* this.client.query(query, params) rejects: a syntax error, or the
\* connection failed
QueryRejects ==
    /\ queryPc = "sent"
    /\ queryPc' = "rejected"
    /\ UNCHANGED <<chunkVars, searchVars, clientVars, runVars, retryVars, dbOptions, built>>

NextQuery ==
    \/ ProviderSearchCall
    \/ ClientSearchCall
    \/ QueryResolves
    \/ QueryRejects

SpecQuery == InitQuery /\ [][NextQuery]_vars

\* ------------------------------------------------------------ properties
\* search() returned a result (it did not throw)
Returned == searchPc = "done" /\ searchError = None

\* the options in force in the search() call
InForce == searchOptions(callOptions)

\* the number of entries of seq that reference document key k
CountKey(seq, k) == Cardinality({i \in 1..Len(seq) : seq[i].originalContent = k})

\* the largest similarity in a non-empty list of candidates
MaxSimilarity(seq) ==
    CHOOSE m \in {seq[i].similarity : i \in 1..Len(seq)} :
        \A i \in 1..Len(seq) : seq[i].similarity <= m

SortedDescending(seq) ==
    \A i \in 1..(Len(seq) - 1) : seq[i].similarity >= seq[i + 1].similarity

\* C1: when diversity capping is applied, no document key occurs in the
\* result of search() more than maxChunksPerDocument times, whatever the
\* store returned.
C1_DiversityCap ==
    (Returned /\ InForce.maxChunksPerDocument # 0) =>
        \A k \in Keys \ {None} :
            CountKey(returned, k) > 0 => CountKey(returned, k) <= InForce.maxChunksPerDocument

C1_Witness ==
    /\ Returned
    /\ InForce.maxChunksPerDocument = 1
    /\ Len(allResults) = 3
    /\ \A i \in 1..3 : allResults[i].originalContent = "doc1"
    /\ CountKey(returned, "doc1") = 1

\* C2 as stated: with useAdaptiveThreshold and a non-empty store answer, every
\* returned candidate has similarity >= max(0.8 * topScore, minSimilarity),
\* topScore being the maximum similarity of ALL raw candidates.
C2_Original ==
    (Returned /\ InForce.useAdaptiveThreshold /\ Len(allResults) > 0) =>
        \A i \in 1..Len(returned) :
            /\ 10 * returned[i].similarity >= 8 * MaxSimilarity(allResults)
            /\ returned[i].similarity >= InForce.minSimilarity

\* C2 as amended: the bound holds with topScore the similarity of the FIRST
\* candidate the store returned, which is the maximum whenever the store's
\* answer is sorted by similarity, descending.
C2_AdaptiveThreshold ==
    (Returned /\ InForce.useAdaptiveThreshold /\ Len(allResults) > 0) =>
        /\ \A i \in 1..Len(returned) :
            /\ 10 * returned[i].similarity >= 8 * allResults[1].similarity
            /\ returned[i].similarity >= InForce.minSimilarity
        /\ SortedDescending(allResults) =>
            /\ allResults[1].similarity = MaxSimilarity(allResults)
            /\ \A i \in 1..Len(returned) :
                10 * returned[i].similarity >= 8 * MaxSimilarity(allResults)

C2_Witness ==
    /\ Returned
    /\ InForce.useAdaptiveThreshold
    /\ Len(allResults) = 3
    /\ allResults[1].similarity = 7
    /\ allResults[2].similarity = 9
    /\ allResults[3].similarity = 4
    /\ [i \in 1..Len(returned) |-> returned[i].id] = <<1, 2>>

\* the chunker at hand is a FixedSizeChunking / RecursiveChunking whose
\* chunk(input) has returned
FixedDone == op = "chunk" /\ chunker.kind = "fixed"
RecursiveDone == op = "chunk" /\ chunker.kind = "recursive"

Contents == [i \in 1..Len(chunkResult) |-> chunkResult[i].content]

\* C3: FixedSizeChunking.chunk on a text of length L > 0 returns exactly the
\* windows starting at 0, step, 2*step, ... < L: ceil(L / step) chunks, the
\* k-th with content text[k*step, min(k*step + size, L)), startChar = k*step
\* and endChar = min(k*step + size, L).
C3_FixedWindows ==
    (FixedDone /\ Len(input) > 0) =>
        LET step == cfgSize - cfgOverlap
            L == Len(input)
        IN  /\ Len(chunkResult) = (L + step - 1) \div step
            /\ \A k \in 0..(Len(chunkResult) - 1) :
                /\ k * step < L
                /\ chunkResult[k + 1].content =
                       [j \in 1..(Min(k * step + cfgSize, L) - k * step) |-> input[k * step + j]]
                /\ chunkResult[k + 1].metadata.startChar = k * step
                /\ chunkResult[k + 1].metadata.endChar = Min(k * step + cfgSize, L)

C3_Witness ==
    /\ FixedDone
    /\ cfgSize = 3
    /\ cfgOverlap = 1
    /\ Len(input) = 5
    /\ Len(chunkResult) = 3
    /\ chunkResult[3].metadata.startChar = 4
    /\ chunkResult[3].metadata.endChar = 5

\* C4: a constructor call throws ChunkingError exactly when size <= 0,
\* overlap < 0 or overlap >= size, for both chunkers; it yields an instance
\* exactly when it does not throw, so every instance chunk() is called on
\* has size > 0 and 0 <= overlap < size.
C4_ConstructorValidation ==
    /\ op = "new" =>
        /\ ctorCall.thrown = "ChunkingError" <=>
               (\/ ctorCall.chunkSize <= 0
                \/ ctorCall.chunkOverlap < 0
                \/ ctorCall.chunkOverlap >= ctorCall.chunkSize)
        /\ ctorCall.thrown = None <=>
               (/\ chunker.kind = ctorCall.kind
                /\ cfgSize = ctorCall.chunkSize
                /\ cfgOverlap = ctorCall.chunkOverlap)
        /\ ctorCall.thrown # None <=> chunker = NoChunker
    /\ (chunker.kind # None \/ op = "chunk") =>
        (cfgSize > 0 /\ 0 <= cfgOverlap /\ cfgOverlap < cfgSize)

C4_Witness ==
    /\ op = "new"
    /\ ctorCall.kind = "recursive"
    /\ ctorCall.chunkSize = 2
    /\ ctorCall.chunkOverlap = 2
    /\ ctorCall.thrown = "ChunkingError"
    /\ chunker = NoChunker

\* C5: chunk("") returns the empty sequence, for both strategies and every
\* valid (size, overlap).
C5_EmptyText ==
    (op = "chunk" /\ input = <<>>) => chunkResult = <<>>

C5_Witness ==
    /\ RecursiveDone
    /\ input = <<>>
    /\ cfgOverlap > 0
    /\ chunkResult = <<>>

\* C6: the chunk at position i (0-based) of one chunk() call has
\* chunkIndex = i, and every chunk of the call has totalChunks = n, the
\* number of chunks returned.
C6_IndexAndTotal ==
    op = "chunk" =>
        \A i \in 1..Len(chunkResult) :
            /\ chunkResult[i].metadata.chunkIndex = i - 1
            /\ chunkResult[i].metadata.totalChunks = Len(chunkResult)

C6_Witness ==
    /\ RecursiveDone
    /\ cfgOverlap > 0
    /\ Len(chunkResult) = 3
    /\ chunkResult[3].metadata.chunkIndex = 2
    /\ chunkResult[1].metadata.totalChunks = 3

FirstIsWholeText == Len(chunkResult) >= 1 /\ chunkResult[1].content = input

\* C8 as stated: for both strategies a text with 0 < length <= size comes
\* back as exactly one chunk whose content is the whole text.
C8_Original ==
    (op = "chunk" /\ 0 < Len(input) /\ Len(input) <= cfgSize) =>
        (Len(chunkResult) = 1 /\ FirstIsWholeText)

\* C8 as amended: RecursiveChunking returns such a text as exactly one chunk,
\* the whole text; FixedSizeChunking returns the whole text as its first
\* chunk, and that chunk is the only one exactly when length <= size - overlap
\* (a longer text is followed by the windows starting at step, 2*step, ...).
C8_ShortText ==
    (op = "chunk" /\ 0 < Len(input) /\ Len(input) <= cfgSize) =>
        /\ FirstIsWholeText
        /\ chunker.kind = "recursive" => Len(chunkResult) = 1
        /\ chunker.kind = "fixed" => (Len(chunkResult) = 1 <=> Len(input) <= cfgSize - cfgOverlap)

C8_Witness ==
    /\ FixedDone
    /\ cfgSize = 4
    /\ cfgOverlap = 2
    /\ Len(input) = 3
    /\ Len(chunkResult) = 2
    /\ chunkResult[1].content = input
    /\ chunkResult[2].content = <<input[3]>>

\* the parts splitText works on, each with its separator re-appended (all but
\* the last); the characters of the text when the separator is ''
PartsWithSep(text, sep) ==
    IF sep = <<>> THEN [i \in 1..Len(text) |-> <<text[i]>>]
    ELSE LET parts == Split(text, sep)
         IN  [i \in 1..Len(parts) |->
                IF i < Len(parts) THEN parts[i] \o sep ELSE parts[i]]

\* the offsets of the text that end a part: where a cut may fall
PartEnds(parts) ==
    {Len(Concat(SubSeq(parts, 1, n))) : n \in 0..Len(parts)}

\* the case C9 is about: overlap = 0, a text longer than size in which a
\* separator of the hierarchy occurs, every part of it fitting in size
C9_Case ==
    /\ RecursiveDone
    /\ cfgOverlap = 0
    /\ Len(input) > cfgSize
    /\ ChosenSeparator(input, chunker.separators) > 0
    /\ LET parts == PartsWithSep(input,
                        chunker.separators[ChosenSeparator(input, chunker.separators)])
       IN  \A i \in 1..Len(parts) : Len(parts[i]) <= cfgSize

\* C9: in that case every chunk has length <= size and every chunk is a
\* concatenation of consecutive whole parts: the chunks concatenate to the
\* text and each chunk ends where a part ends.
C9_PartsFit ==
    C9_Case =>
        LET parts == PartsWithSep(input,
                        chunker.separators[ChosenSeparator(input, chunker.separators)])
        IN  /\ \A i \in 1..Len(chunkResult) : Len(chunkResult[i].content) <= cfgSize
            /\ Concat(Contents) = input
            /\ \A n \in 1..Len(chunkResult) :
                Len(Concat(SubSeq(Contents, 1, n))) \in PartEnds(parts)

C9_Witness ==
    /\ C9_Case
    /\ cfgSize = 4
    /\ input = <<"a", " ", "a", " ", "a">>
    /\ Contents = << <<"a", " ", "a", " ">>, <<"a">> >>

\* the candidates the capper has to keep: those without a document key, and
\* those with fewer than cap earlier candidates of the same key
KeepsUnderCap(seq, cap) ==
    [i \in 1..Len(seq) |->
        \/ seq[i].originalContent = None
        \/ Cardinality({j \in 1..(i - 1) :
                           seq[j].originalContent = seq[i].originalContent}) < cap]

\* C10: the capper keeps, of the candidates that survived the adaptive
\* threshold and in their order, exactly those without a document key and,
\* for each key, the first maxChunksPerDocument candidates of that key.
C10_CapperKeepsFirst ==
    (Returned /\ InForce.maxChunksPerDocument # 0) =>
        capped = SelectSeq2(thresholded,
                            KeepsUnderCap(thresholded, InForce.maxChunksPerDocument))

C10_Witness ==
    /\ Returned
    /\ InForce.maxChunksPerDocument = 1
    /\ Len(thresholded) = 3
    /\ thresholded[1].originalContent = "doc1"
    /\ thresholded[2].originalContent = None
    /\ thresholded[3].originalContent = "doc1"
    /\ [i \in 1..Len(capped) |-> capped[i].id] = <<1, 2>>

\* the positions in the store's answer of the candidates of seq
Ids(seq) == [i \in 1..Len(seq) |-> seq[i].id]

\* seq is a subsequence of all: its elements are elements of all, taken at
\* strictly increasing positions
IsSubsequence(seq, all) ==
    /\ \A i \in 1..Len(seq) :
        /\ seq[i].id \in 1..Len(all)
        /\ seq[i] = all[seq[i].id]
    /\ \A i \in 1..(Len(seq) - 1) : seq[i].id < seq[i + 1].id

\* C11: what search() returns is a subsequence of what database.search
\* returned: every returned candidate came from the store, none is
\* duplicated, and the store's relative order is kept, whatever the options.
C11_Subsequence ==
    Returned =>
        /\ IsSubsequence(thresholded, allResults)
        /\ IsSubsequence(capped, allResults)
        /\ IsSubsequence(returned, allResults)

C11_Witness ==
    /\ Returned
    /\ InForce.useAdaptiveThreshold
    /\ InForce.maxChunksPerDocument = 1
    /\ Len(allResults) = 3
    /\ ~SortedDescending(allResults)
    /\ Ids(returned) = <<1, 3>>

\* C12: search() returns the first requestedLimit candidates, in order, of
\* the sequence that survived the filter stages, or all of them when fewer
\* survived; never more than requestedLimit, although the store was asked
\* for 3 * requestedLimit when diversity capping is on.
C12_FinalTruncate ==
    Returned =>
        /\ Len(returned) = Min(InForce.limit, Len(capped))
        /\ \A i \in 1..Len(returned) : returned[i] = capped[i]
        /\ Len(returned) <= InForce.limit
        /\ storeRequest.limit =
               IF InForce.maxChunksPerDocument # 0 THEN 3 * InForce.limit ELSE InForce.limit

C12_Witness ==
    /\ Returned
    /\ callOptions.limit = Given(2)
    /\ storeRequest.limit = 6
    /\ Len(allResults) = 3
    /\ Len(capped) = 3
    /\ Ids(returned) = <<1, 2>>

\* C13 as stated: the diversity capper is applied only when the caller gave
\* maxChunksPerDocument > 0; when the option is not given, is 0 or is
\* negative, no candidate is dropped on account of its document key.
C13_Original ==
    (Returned /\ (callOptions.maxChunksPerDocument = Absent
                    \/ InForce.maxChunksPerDocument <= 0)) =>
        capped = thresholded

\* C13 as amended: the capper is skipped only when maxChunksPerDocument is 0.
\* When the option is not given the cap in force is the default 2, and with
\* a cap in force, of each key min(count, max(cap, 0)) candidates pass and
\* every candidate without a key passes (so a negative cap drops every
\* keyed candidate).
C13_CapperApplied ==
    Returned =>
        /\ (callOptions.maxChunksPerDocument = Absent) =>
               InForce.maxChunksPerDocument = 2
        /\ InForce.maxChunksPerDocument = 0 => capped = thresholded
        /\ InForce.maxChunksPerDocument # 0 =>
            /\ \A k \in Keys \ {None} :
                  CountKey(capped, k) =
                      Min(CountKey(thresholded, k), Max(InForce.maxChunksPerDocument, 0))
            /\ CountKey(capped, None) = CountKey(thresholded, None)

C13_Witness ==
    /\ Returned
    /\ callOptions.maxChunksPerDocument = Absent
    /\ Len(thresholded) = 3
    /\ CountKey(thresholded, "doc1") = 3
    /\ Ids(capped) = <<1, 2>>

\* the search() call was made with an empty or whitespace-only query
BlankQuery == op = "search" /\ \A i \in 1..Len(query) : query[i] = " "

\* C14: on an initialized client, search() with an empty or whitespace-only
\* query fails with ValidationError, and neither embeddings.embed nor
\* database.search is called.
C14_QueryValidation ==
    (BlankQuery /\ initialized) =>
        /\ searchPc = "done"
        /\ searchError = "ValidationError"
        /\ embedCalls = 0
        /\ dbSearchCalls = 0
        /\ ~storeRequest.called
        /\ rejected = NoRejection

C14_Witness ==
    /\ BlankQuery
    /\ initialized
    /\ query = <<" ", " ">>
    /\ searchError = "ValidationError"
    /\ embedCalls = 0

\* C15: when embeddings.embed rejects, search() fails with that same error,
\* database.search is never called and nothing is returned; when
\* database.search rejects, search() fails with that same error and returns
\* no partial result.
C15_ErrorsPropagate ==
    /\ rejected.by = "embed" =>
        /\ searchPc = "done"
        /\ searchError = rejected.error
        /\ dbSearchCalls = 0
        /\ ~storeRequest.called
        /\ returned = <<>>
    /\ rejected.by = "search" =>
        /\ searchPc = "done"
        /\ searchError = rejected.error
        /\ dbSearchCalls = 1
        /\ allResults = <<>>
        /\ returned = <<>>

C15_Witness ==
    /\ rejected = [by |-> "embed", error |-> "EmbeddingError"]
    /\ searchError = "EmbeddingError"
    /\ embedCalls = 1
    /\ dbSearchCalls = 0

\* the minSimilarity the caller of search() gave
GivenMinSimilarity == callOptions.minSimilarity[1]

AllAtLeast(seq, m) == \A i \in 1..Len(seq) : seq[i].similarity >= m

\* C16 as stated: every result of search(query, {minSimilarity: m}) has
\* similarity >= m, with or without useAdaptiveThreshold, whatever
\* candidates the store returned.
C16_Original ==
    (Returned /\ callOptions.minSimilarity # Absent) =>
        AllAtLeast(returned, GivenMinSimilarity)

\* C16 as amended: m is passed to database.search; with useAdaptiveThreshold
\* every result has similarity >= m whatever the store returned; without
\* it search() filters nothing by similarity, and every result has
\* similarity >= m when every candidate the store returned has.
C16_MinSimilarity ==
    (Returned /\ callOptions.minSimilarity # Absent) =>
        /\ storeRequest.minSimilarity = GivenMinSimilarity
        /\ InForce.useAdaptiveThreshold => AllAtLeast(returned, GivenMinSimilarity)
        /\ ~InForce.useAdaptiveThreshold => thresholded = allResults
        /\ AllAtLeast(allResults, GivenMinSimilarity) =>
               AllAtLeast(returned, GivenMinSimilarity)

C16_Witness ==
    /\ Returned
    /\ callOptions.minSimilarity = Given(8)
    /\ InForce.useAdaptiveThreshold
    /\ Len(allResults) = 2
    /\ allResults[1].similarity = 7
    /\ allResults[2].similarity = 9
    /\ Ids(returned) = <<2>>

\* C19: when search() is called without a limit option the requested limit
\* is 10: the store is asked for 10 candidates (30 with diversity capping
\* on) and the first 10 survivors at most are returned.
C19_DefaultLimit ==
    (storeRequest.called /\ callOptions.limit = Absent) =>
        /\ storeRequest.limit = IF InForce.maxChunksPerDocument # 0 THEN 3 * 10 ELSE 10
        /\ Returned => Len(returned) = Min(10, Len(capped))

\* c occurs in text as a run of consecutive characters
IsSubstring(c, text) ==
    \E start \in 1..(Len(text) - Len(c) + 1) : SubSeq(text, start, start + Len(c) - 1) = c

\* C20: for RecursiveChunking with any valid size and overlap, overlap > 0
\* included, the content of every returned chunk is a contiguous substring
\* of the source text.
C20_ChunksAreSubstrings ==
    RecursiveDone =>
        \A i \in 1..Len(chunkResult) : IsSubstring(chunkResult[i].content, input)

C20_Witness ==
    /\ RecursiveDone
    /\ cfgSize = 3
    /\ cfgOverlap = 1
    /\ input = <<"a", ".", " ", "a", ".">>
    /\ Len(chunkResult) >= 2
    /\ \E i \in 2..Len(chunkResult) :
          /\ Len(chunkResult[i].content) >= 2
          /\ Head(chunkResult[i].content) =
                 chunkResult[i - 1].content[Len(chunkResult[i - 1].content)]
          /\ IsSubstring(chunkResult[i].content, input)

\* the operations of RAGClient that need an initialized client
DataOperations ==
    {"addDocument", "addDocuments", "updateDocument", "deleteDocument", "search",
     "getDocument"}

\* C17: in any sequence of calls on a RAGClient, an operation invoked while
\* the client is not initialized (before a successful initialize(), while
\* one is in flight, after one failed, or after close()) fails with
\* RAGError and calls neither the embeddings nor the database provider.
C17_EnsureInitialized ==
    (lastCall.name \in DataOperations /\ ~lastCall.wasInitialized) =>
        /\ lastCall.error = "RAGError"
        /\ lastCall.embedCalls = 0
        /\ lastCall.dbCalls = 0
        /\ lastCall.ids = <<>>

C17_Witness ==
    /\ lastCall.name = "updateDocument"
    /\ ~lastCall.wasInitialized
    /\ lastCall.error = "RAGError"
    /\ lastCall.id = <<1>>
    /\ HasId(table, <<1>>)
    /\ ~connected
    /\ clientCalls = 4

\* C18: after addDocument(content) returned id and deleteDocument(id)
\* returned true, getDocument(id) finds nothing and the store holds no
\* record derived from that document, however many chunks it was split into.
C18_DeleteRemovesDocument ==
    (lastCall.name = "deleteDocument" /\ lastCall.error = None /\ lastCall.flag) =>
        /\ getDocument(table, lastCall.id) = <<>>
        /\ \A i \in 1..Len(table) : table[i].addedAs # lastCall.id

\* C21: in every execution of search(), embeddings.embed is called at most
\* once and database.search at most once; database.search is called only
\* after embed resolved, with the embedding of the query, and never while
\* embed is in flight or after embed rejected; after either call rejected,
\* search() is over and no call was repeated.
C21_EmbedThenSearchOnce ==
    /\ embedCalls <= 1
    /\ dbSearchCalls <= 1
    /\ searchPc = "embed" => embedCalls = 1 /\ dbSearchCalls = 0
    /\ dbSearchCalls = 1 =>
        /\ embedCalls = 1
        /\ rejected.by # "embed"
        /\ storeRequest.called
        /\ storeRequest.embedding = query
    /\ rejected.by = "embed" => searchPc = "done" /\ embedCalls = 1 /\ dbSearchCalls = 0
    /\ rejected.by = "search" => searchPc = "done" /\ embedCalls = 1 /\ dbSearchCalls = 1

C21_Witness ==
    /\ searchPc = "done"
    /\ rejected.by = "search"
    /\ storeRequest.called
    /\ storeRequest.embedding = <<" ", "q">>
    /\ embedCalls = 1
    /\ dbSearchCalls = 1

\* what splitText returns for the text at hand, and the parts, separator
\* re-appended, of its split on the separator splitText chooses
Splits == splitText(input, cfgSize, chunker.separators)
TopParts ==
    PartsWithSep(input, chunker.separators[ChosenSeparator(input, chunker.separators)])

\* C22: whenever RecursiveChunking splits a text longer than size on the
\* chosen separator, no part that is by itself (separator re-appended)
\* longer than size is emitted whole as a split, wherever it occurs among
\* the parts.
C22_OversizedPartResplit ==
    (/\ RecursiveDone
     /\ Len(input) > cfgSize
     /\ ChosenSeparator(input, chunker.separators) > 0
     /\ chunker.separators[ChosenSeparator(input, chunker.separators)] # <<>>) =>
        \A i \in 1..Len(TopParts) :
            Len(TopParts[i]) > cfgSize =>
                \A j \in 1..Len(Splits) : Splits[j] # TopParts[i]

\* no non-empty separator of the hierarchy occurs in the text
NoSeparatorOccurs ==
    \A k \in 1..Len(chunker.separators) :
        chunker.separators[k] # <<>> => ~Includes(input, chunker.separators[k])

\* consecutive pieces of exactly size characters, the last possibly shorter
IsFixedSlicing(pieces, text, size) ==
    /\ Concat(pieces) = text
    /\ \A i \in 1..(Len(pieces) - 1) : Len(pieces[i]) = size
    /\ Len(pieces) >= 1 => (1 <= Len(pieces[Len(pieces)]) /\ Len(pieces[Len(pieces)]) <= size)

\* C23: for RecursiveChunking and a text longer than size in which no
\* non-empty separator of the hierarchy occurs, the text is cut by fixed-size
\* slicing, and every returned chunk has length <= size, for every valid
\* overlap.
C23_SlicedWithinSize ==
    (RecursiveDone /\ Len(input) > cfgSize /\ NoSeparatorOccurs) =>
        /\ IsFixedSlicing(Splits, input, cfgSize)
        /\ \A i \in 1..Len(chunkResult) : Len(chunkResult[i].content) <= cfgSize

\* chunk begins with the text prefix
StartsWith(chunk, prefix) ==
    Len(chunk) >= Len(prefix) /\ SubSeq(chunk, 1, Len(prefix)) = prefix

\* C24: for RecursiveChunking with overlap > 0, every returned chunk after
\* the first begins with the last overlap characters of the chunk before it
\* (the whole of it when it is shorter than overlap, as slice(-overlap)
\* gives), followed by a split that did not fit into that chunk.
C24_OverlapSeedsNextChunk ==
    (RecursiveDone /\ cfgOverlap > 0) =>
        \A i \in 2..Len(chunkResult) :
            \E j \in 1..Len(Splits) :
                /\ Len(Contents[i - 1]) + Len(Splits[j]) > cfgSize
                /\ StartsWith(Contents[i],
                              SliceLast(Contents[i - 1], cfgOverlap) \o Splits[j])

C24_Witness ==
    /\ RecursiveDone
    /\ cfgSize = 3
    /\ cfgOverlap = 1
    /\ input = <<"a", ".", " ", "a", ".">>
    /\ Splits = << <<"a", ".", " ">>, <<"a", ".">> >>
    /\ Contents = << <<"a", ".", " ">>, <<" ", "a", ".">> >>

\* C27: for both chunking strategies with overlap = 0, the contents of the
\* chunks chunk(text) returns, concatenated in index order, are exactly the
\* text: no character is lost, duplicated or reordered.
C27_ChunksConcatenateToText ==
    (op = "chunk" /\ cfgOverlap = 0) => Concat(Contents) = input

C27_Witness ==
    /\ RecursiveDone
    /\ cfgOverlap = 0
    /\ cfgSize = 2
    /\ chunker.separators = DEFAULT_SEPARATORS
    /\ input = <<"a", " ", "a", "a", "a">>
    /\ Contents = << <<"a", " ">>, <<"a", "a">>, <<"a">> >>
    /\ Concat(Contents) = input

\* the chunk() call followed step by step has returned what the strategy
\* returns for the text
RunReturned ==
    /\ runPc = "done"
    /\ chunkResult = IF chunker.kind = "fixed" THEN FixedSizeChunk(input, chunker.options)
                     ELSE RecursiveChunk(input, chunker.options, chunker.separators)

\* the chunk() call followed step by step is inside one of its loops
RunInLoop == runPc \in {"fixed", "split"}

\* the guard of the step the call takes next holds: the while loop is at its
\* test, or the innermost splitText call is at a part or at its return
RunCanStep ==
    /\ steps < MaxSteps
    /\ runPc = "fixed" => frames = <<>>
    /\ runPc = "split" =>
        /\ Len(frames) >= 1
        /\ \A d \in 1..Len(frames) : frames[d].i \in 1..(Len(frames[d].parts) + 1)
        /\ \A d \in 1..(Len(frames) - 1) : frames[d].i <= Len(frames[d].parts)

\* C28: chunk(text) terminates and returns a chunk sequence for every text
\* and every valid configuration, for both strategies, the default hierarchy
\* and custom separator lists with or without the '' fallback: a call runs
\* at most 3 * length + 1 loop iterations and returns, it can take its next
\* step until it has returned, and it returns the chunk sequence of the
\* strategy.
C28_ChunkTerminates ==
    /\ steps <= 3 * Len(input) + 1
    /\ RunInLoop => RunCanStep
    /\ ~RunInLoop => (op = "chunk" <=> RunReturned)

C28_Witness ==
    /\ RunReturned
    /\ chunker.kind = "recursive"
    /\ chunker.separators = << <<" ">> >>
    /\ cfgSize = 2
    /\ input = <<"a", " ", "a", "a", "a">>
    /\ Contents = << <<"a", " ">>, <<"a", "a">>, <<"a">> >>
    /\ steps = 3

\* the errors C25 names as retryable
NamedRetryable(error) ==
    error.status \in {429, 500, 503} \/ error.code \in {"ETIMEDOUT", "ECONNRESET"}

\* embed was called again only after an attempt failed with a retryable
\* error while attempts remained, and at most maxRetries times in all
RetriesOnlyWhenRetryable ==
    /\ Len(embedLog) <= Max(maxRetries, 0)
    /\ \A k \in 1..(Len(embedLog) - 1) :
        /\ embedLog[k].ended = "rejected"
        /\ NamedRetryable(embedLog[k].error)
    /\ \A k \in 1..Len(embedLog) :
        (embedLog[k].ended = "rejected" /\ ~NamedRetryable(embedLog[k].error)) =>
            /\ k = Len(embedLog)
            /\ retryPc = "done"

\* embedWithRetry returned the result of its last embed call, the first
\* that resolved
ReturnedFirstSuccess ==
    /\ retryOutcome.kind = "returned"
    /\ Len(embedLog) >= 1
    /\ retryOutcome.from = Len(embedLog)
    /\ embedLog[Len(embedLog)].ended = "resolved"

\* embedWithRetry threw the error its last embed call rejected with
ThrewLastError ==
    /\ retryOutcome.kind = "thrown"
    /\ Len(embedLog) >= 1
    /\ embedLog[Len(embedLog)].ended = "rejected"
    /\ retryOutcome.error = embedLog[Len(embedLog)].error
    /\ retryOutcome.error.at = Len(embedLog)

\* C25 as stated: embedWithRetry calls embed at most maxRetries times, again
\* only after a retryable error while attempts remain, and ends by returning
\* the result of the first successful attempt or by throwing the error of
\* the last attempt made, a non-retryable error at once.
C25_Original ==
    /\ RetriesOnlyWhenRetryable
    /\ retryPc = "done" => (ReturnedFirstSuccess \/ ThrewLastError)

\* C25 as amended: the same for maxRetries >= 1; for maxRetries <= 0 embed is
\* never called and embedWithRetry throws a new Error('Failed to embed text
\* after retries'), the error of no attempt.
C25_RetryLoop ==
    /\ RetriesOnlyWhenRetryable
    /\ (retryPc = "done" /\ maxRetries >= 1) => (ReturnedFirstSuccess \/ ThrewLastError)
    /\ (retryPc = "done" /\ maxRetries <= 0) =>
        /\ embedLog = <<>>
        /\ retryOutcome = [kind |-> "thrown", error |-> FailedAfterRetries, from |-> 0]

C25_Witness ==
    /\ retryPc = "done"
    /\ maxRetries = 3
    /\ Len(embedLog) = 3
    /\ embedLog[1].error.status = 429
    /\ embedLog[2].error.code = "ECONNRESET"
    /\ embedLog[3].error.status = 503
    /\ delay = 2000
    /\ ThrewLastError

\* C26: when updateDocument(id, content) fails, the store is left as it was
\* before the call: every step that ends an updateDocument call with an
\* error leaves the table unchanged, so the document stored under id is
\* still there with its old content.
C26_FailedUpdateKeepsStore ==
    [][(/\ clientCalls' = clientCalls + 1
        /\ lastCall'.name = "updateDocument"
        /\ lastCall'.error # None) => table' = table]_vars

\* C29: every successful database.connect() of initialize() is matched by a
\* database.disconnect() at the next close(): once a close() made while no
\* initialize() is in flight has returned, the database holds no open
\* connection, also when the initialize() before it failed after connecting.
C29_CloseDisconnects ==
    (/\ lastCall.name = "close"
     /\ lastCall.error = None
     /\ initPc = "idle") => ~connected

\* the first condition is introduced by WHERE and every later one by AND
WhereThenAnd(conditions) ==
    \A i \in 1..Len(conditions) :
        conditions[i].keyword = IF i = 1 THEN "WHERE" ELSE "AND"

\* params has one entry per placeholder, in placeholder order: the embedding,
\* then the value of each condition, then the limit
ParamsMatchPlaceholders(q) ==
    /\ Len(q.params) = Len(q.conditions) + 2
    /\ q.params[1][1] \in {"null", "string"}
    /\ \A i \in 1..Len(q.conditions) :
        /\ q.conditions[i].placeholder = i + 1
        /\ q.params[i + 1][1] =
               IF q.conditions[i].condition = "metadata @>" THEN "string" ELSE "number"
    /\ q.limitPlaceholder = Len(q.params)
    /\ q.params[Len(q.params)][1] = "number"

\* C30: for every combination of search options (filters absent, an empty
\* object or non-empty; minSimilarity absent or present) the query
\* buildSearchQuery returns has a well-formed condition list, WHERE first and
\* AND afterwards, and params has exactly one entry per placeholder in
\* placeholder order.
C30_WellFormedQuery ==
    queryPc = "sent" =>
        /\ WhereThenAnd(built.conditions)
        /\ ParamsMatchPlaceholders(built)

====
